---- MODULE Spec2Model ----
(***************************************************************************)
(* A model of the Ready Trader Go exchange: the two order books, the       *)
(* per-competitor state machine, the execution connections and the         *)
(* replay of scripted market events.                                       *)
(*                                                                         *)
(* Every handler of the event loop is one action.  A handler is written    *)
(* as an operator that maps a "world" record (the whole mutable state) to  *)
(* the world after the call; the field exc records that a Python           *)
(* exception was raised, in which case the rest of the handler is skipped  *)
(* and the world keeps the mutations made before the raise.                *)
(***************************************************************************)
EXTENDS Integers, Sequences, FiniteSets, TLC

\* ------------------------------------------------------------------ bounds
\* Largest client order id a competitor uses.
BookOrders == 2
LimitOrders == 3
RiskOrders == 3
\* Largest value of the virtual clock.
MaxTime == 2

\* ----------------------------------------------------------- configuration
TickSize == 100
\* Fees are FeeNum / FeeDen of the traded value.
MakerFeeNum == -1
TakerFeeNum == 2
FeeDen == 100
\* The "Limits" section of the configuration file; MessageFrequencyInterval is in units
\* of the virtual clock.
Limits(position_limit, order_count_limit, active_volume_limit, interval, limit) ==
    [PositionLimit |-> position_limit, ActiveOrderCountLimit |-> order_count_limit,
     ActiveVolumeLimit |-> active_volume_limit, MessageFrequencyInterval |-> interval,
     MessageFrequencyLimit |-> limit]

\* ---------------------------------------------------------------- constants
MINIMUM_BID == 0
MAX_UNHEDGED_LOTS == 10
\* seconds of the event loop's clock
UNHEDGED_LOTS_TIME_LIMIT == 60
\* Python's None where an integer is expected.
None == -1

Names == {"A", "B"}
\* The listener of scripted orders (MarketEventsReader); its name in match events is "".
READER == "M"
FUTURE == "FUTURE"
ETF == "ETF"
Instruments == {FUTURE, ETF}
SELL == "SELL"
BUY == "BUY"
FILL_AND_KILL == "FAK"
GOOD_FOR_DAY == "GFD"

\* ------------------------------------------------------- Python containers
DictDel(f, k) == [x \in (DOMAIN f) \ {k} |-> f[x]]
DictSet(f, k, v) == [x \in (DOMAIN f) \cup {k} |-> IF x = k THEN v ELSE f[x]]
\* dict.get(k, d) of a defaultdict(int)
DictGet(f, k, d) == IF k \in DOMAIN f THEN f[k] ELSE d

Last(s) == s[Len(s)]
Front(s) == SubSeq(s, 1, Len(s) - 1)
\* list.pop(i) for a 0-based index i in range
RemoveAt(s, i) == SubSeq(s, 1, i) \o SubSeq(s, i + 2, Len(s))
InsertAt(s, i, x) == SubSeq(s, 1, i) \o <<x>> \o SubSeq(s, i + 1, Len(s))
\* bisect.bisect (= bisect_right) and bisect_left on a sorted list: 0-based insertion points
bisect(s, x) == Cardinality({j \in 1..Len(s) : s[j] <= x})
bisect_left(s, x) == Cardinality({j \in 1..Len(s) : s[j] < x})
insort_left(s, x) == InsertAt(s, bisect_left(s, x), x)
insort(s, x) == InsertAt(s, bisect(s, x), x)
\* list.pop(bisect(list, x) - 1): index -1 is the last element; an empty list raises
PopBisectRaises(s, x) == Len(s) = 0
PopBisect(s, x) ==
    LET i == bisect(s, x) - 1
    IN  IF i = -1 THEN Front(s) ELSE RemoveAt(s, i)

\* Python's round() of the rational n / d (d > 0): half to even
round(n, d) ==
    LET q == n \div d
        r == n - q * d
    IN  IF 2 * r < d THEN q
        ELSE IF 2 * r > d THEN q + 1
        ELSE IF q % 2 = 0 THEN q ELSE q + 1

\* ------------------------------------------------------------------- state
VARIABLES
    book,      \* book[i]: the OrderBook of instrument i
    ord,       \* ord[oid]: the Order objects, oid = <<listener, client_order_id>>
    comp,      \* comp[n]: the Competitor named n
    conn,      \* conn[n]: the ExecutionConnection that logs in as n, and its transport
    mr,        \* the MarketEventsReader: next_event, the unread file, its order dicts
    clock,     \* the last value of the virtual clock (0 until the market opens)
    started,   \* the timers have been started (market open)
    out,       \* the messages written to the execution transports by the last handler
    rows,      \* the score-board records enqueued by the last handler
    cbs,       \* the order listener callbacks made by the last handler, in order
    config,    \* the limits the exchange was configured with
    ctl,       \* the Controller: done (the market events are exhausted)
    pub,       \* the InformationPublisher: its pending emissions of trade ticks
    exc,       \* the last handler raised an exception
    last       \* the last handler run and its arguments

vars == <<book, ord, comp, conn, mr, clock, started, out, rows, cbs, config, ctl, pub, exc,
          last>>

\* time: the time of the running event loop, in units of the virtual clock
World == [book |-> book, ord |-> ord, comp |-> comp, conn |-> conn, mr |-> mr, ctl |-> ctl,
          pub |-> pub, cfg |-> config, time |-> IF started THEN clock ELSE 0,
          out |-> <<>>, rows |-> <<>>, cbs |-> <<>>, exc |-> FALSE]

Raise(w) == [w EXCEPT !.exc = TRUE]

\* ------------------------------------------------------------------ Order
Order(client_order_id, instrument, lifespan, side, price, volume, listener) ==
    [client_order_id |-> client_order_id, instrument |-> instrument, lifespan |-> lifespan,
     side |-> side, price |-> price, remaining_volume |-> volume, total_fees |-> 0,
     volume |-> volume, listener |-> listener]

\* -------------------------------------------------------------- OrderBook
OrderBook == [ask_prices |-> <<>>, ask_ticks |-> <<>>, bid_prices |-> <<>>, bid_ticks |-> <<>>,
              last_traded_price |-> None, levels |-> <<>>, total_volumes |-> <<>>,
              trade_occurred |-> 0]

last_traded_price(w, i) == w.book[i].last_traded_price

\* the midpoint times two (an integer), None when a side is empty
midpoint_price2(w, i) ==
    LET b == w.book[i]
    IN  IF Len(b.bid_prices) > 0 /\ Len(b.ask_prices) > 0
        THEN Last(b.bid_prices) + (-Last(b.ask_prices))
        ELSE None

remove_volume_from_level(w, i, price, volume, side) ==
    LET b == w.book[i]
        Pop(b1) ==
            IF side = SELL
            THEN IF PopBisectRaises(b.ask_prices, -price)
                 THEN Raise([w EXCEPT !.book[i] = b1])
                 ELSE [w EXCEPT !.book[i] =
                          [b1 EXCEPT !.ask_prices = PopBisect(b.ask_prices, -price)]]
            ELSE IF PopBisectRaises(b.bid_prices, price)
                 THEN Raise([w EXCEPT !.book[i] = b1])
                 ELSE [w EXCEPT !.book[i] =
                          [b1 EXCEPT !.bid_prices = PopBisect(b.bid_prices, price)]]
    IN  IF w.exc THEN w
        ELSE IF price \notin DOMAIN b.total_volumes THEN Raise(w)
        ELSE IF b.total_volumes[price] = volume
        THEN Pop([b EXCEPT !.levels = DictDel(b.levels, price),
                           !.total_volumes = DictDel(b.total_volumes, price)])
        ELSE [w EXCEPT !.book[i].total_volumes[price] = @ - volume]

\* ------------------------------------------------------- CompetitorAccount
\* The mark-to-market fields (profit_or_loss, max_profit, max_drawdown) are not modelled;
\* of account.update only the fact that it raises on a missing price is kept.
CompetitorAccount == [account_balance |-> 0, buy_volume |-> 0, etf_position |-> 0,
                      future_position |-> 0, sell_volume |-> 0, total_fees |-> 0]

transact(a, instrument, side, price, volume, fee) ==
    LET a1 == [a EXCEPT !.account_balance =
                   (IF side = SELL THEN @ + price * volume ELSE @ - price * volume) - fee,
                        !.total_fees = @ + fee]
    IN  IF instrument = FUTURE
        THEN [a1 EXCEPT !.future_position = IF side = SELL THEN @ - volume ELSE @ + volume]
        ELSE IF side = SELL
             THEN [a1 EXCEPT !.sell_volume = @ + volume, !.etf_position = @ - volume]
             ELSE [a1 EXCEPT !.buy_volume = @ + volume, !.etf_position = @ + volume]

\* account.update(future_price, etf_price) raises a TypeError on a None price
update_raises(future_price, etf_price) == future_price = None \/ etf_price = None

\* ------------------------------------------------------------ UnhedgedLots
\* armed: the time of the event loop at the last call_later
UnhedgedLots == [relative_position |-> 0, timer_handle |-> "None", armed |-> 0]

\* timer_handle.cancel() on a handle that was never created raises
apply_position_delta_raises(u, delta) ==
    LET new_relative_position == u.relative_position + delta
    IN  /\ u.timer_handle = "None"
        /\ \/ delta > 0 /\ u.relative_position < -MAX_UNHEDGED_LOTS
                        /\ -MAX_UNHEDGED_LOTS <= new_relative_position
           \/ delta < 0 /\ u.relative_position > MAX_UNHEDGED_LOTS
                        /\ MAX_UNHEDGED_LOTS >= new_relative_position

\* an apply_position_delta that starts the timer and never cancels it
apply_position_delta_never_cancels(u, delta, time) ==
    LET new_relative_position == u.relative_position + delta
    IN  [relative_position |-> new_relative_position,
         timer_handle |-> IF new_relative_position > MAX_UNHEDGED_LOTS
                             \/ new_relative_position < -MAX_UNHEDGED_LOTS
                          THEN "pending" ELSE u.timer_handle,
         armed |-> time]

\* UnhedgedLots.apply_position_delta: timer_handle is "None" until the first call_later,
\* then "pending", "cancelled" or "fired"
apply_position_delta(u, delta, time) ==
    LET new_relative_position == u.relative_position + delta
        h1 == IF delta > 0
              THEN IF u.relative_position < -MAX_UNHEDGED_LOTS
                      /\ -MAX_UNHEDGED_LOTS <= new_relative_position
                   THEN "cancelled" ELSE u.timer_handle
              ELSE IF delta < 0
              THEN IF u.relative_position > MAX_UNHEDGED_LOTS
                      /\ MAX_UNHEDGED_LOTS >= new_relative_position
                   THEN "cancelled" ELSE u.timer_handle
              ELSE u.timer_handle
        h2 == IF delta > 0
              THEN IF new_relative_position > MAX_UNHEDGED_LOTS
                      /\ MAX_UNHEDGED_LOTS >= u.relative_position
                   THEN "pending" ELSE h1
              ELSE IF delta < 0
              THEN IF new_relative_position < -MAX_UNHEDGED_LOTS
                      /\ -MAX_UNHEDGED_LOTS <= u.relative_position
                   THEN "pending" ELSE h1
              ELSE h1
        started_ == \/ delta > 0 /\ new_relative_position > MAX_UNHEDGED_LOTS
                                 /\ MAX_UNHEDGED_LOTS >= u.relative_position
                    \/ delta < 0 /\ new_relative_position < -MAX_UNHEDGED_LOTS
                                 /\ -MAX_UNHEDGED_LOTS <= u.relative_position
    IN  [relative_position |-> new_relative_position, timer_handle |-> h2,
         armed |-> IF started_ THEN time ELSE u.armed]

\* ----------------------------------------------------- ExecutionConnection
\* transport: "none" (not connected), "open", "closing" (close() was called or the peer
\* went away: connection_lost is scheduled), "lost" (connection_lost has run).
\* events: the deque of the frequency limiter; seen: every time given to check_event, a
\* history the program does not keep
ExecutionConnection == [transport |-> "none", closing |-> FALSE, competitor |-> FALSE,
                        events |-> <<>>, seen |-> <<>>]

\* transport.write(): after connection_lost _connection_transport is None and the call
\* raises.  A write on a transport that is closing is marked late: asyncio drops the bytes
\* when its buffer was empty at close(), and sends them after the buffered bytes when the
\* client had not yet read everything.
write(w, n, msg) ==
    IF w.exc THEN w
    ELSE IF w.conn[n].transport \notin {"open", "closing"} THEN Raise(w)
    ELSE [w EXCEPT !.out = Append(@, [msg EXCEPT !.late = (w.conn[n].transport # "open")])]

Message(n, typ, coid, x, y, z, text) ==
    [to |-> n, typ |-> typ, coid |-> coid, x |-> x, y |-> y, z |-> z, text |-> text,
     late |-> FALSE]

send_error(w, n, client_order_id, error_message) ==
    write(w, n, Message(n, "ERROR", client_order_id, 0, 0, 0, error_message))
send_hedge_filled(w, n, client_order_id, average_price, volume) ==
    write(w, n, Message(n, "HEDGE_FILLED", client_order_id, average_price, volume, 0, ""))
send_order_filled(w, n, client_order_id, price, volume) ==
    write(w, n, Message(n, "ORDER_FILLED", client_order_id, price, volume, 0, ""))
send_order_status(w, n, client_order_id, fill_volume, remaining_volume, fees) ==
    write(w, n, Message(n, "ORDER_STATUS", client_order_id, fill_volume, remaining_volume,
                        fees, ""))

\* a close() that leaves the transport open
close_keeps_transport(w, n) ==
    IF w.exc THEN w
    ELSE [w EXCEPT !.conn[n].closing = TRUE]

close(w, n) ==
    IF w.exc THEN w
    ELSE [w EXCEPT !.conn[n].closing = TRUE,
                   !.conn[n].transport = IF @ = "open" THEN "closing" ELSE @]

\* ------------------------------------- MatchEventsWriter, ScoreBoardWriter
Writers == {"match_events", "score_board"}

\* the None that finish() puts in a queue
Sentinel == [operation |-> "None"]

\* queue: the records and the None put by the main thread and not yet taken by the
\* thread.  file: the records the thread has written.  thread: "running" until the
\* thread has taken a None.  callbacks: the on_writer_done calls the thread has posted
\* to the event loop and the loop has not run.  subscribed: queue.put is a subscriber of
\* match_events.event_occurred (MatchEventsWriter only).  posted counts the calls of
\* call_soon_threadsafe, finishes the calls of finish(), and enqueued keeps every item
\* ever put in the queue: histories the program does not keep.
Writer == [queue |-> <<>>, finished |-> FALSE, subscribed |-> TRUE, file |-> <<>>,
           thread |-> "running", callbacks |-> 0, posted |-> 0, enqueued |-> <<>>,
           finishes |-> 0]

\* queue.put(record)
put(w, x, record) ==
    IF w.exc THEN w
    ELSE [w EXCEPT !.ctl.writers[x].queue = Append(@, record),
                   !.ctl.writers[x].enqueued = Append(@, record)]

\* of a MatchEvent, the fields that tell one event of the market data from another
MatchEvent(competitor, operation, order_id, volume) ==
    [competitor |-> competitor, operation |-> operation, order_id |-> order_id,
     volume |-> volume]

\* MatchEvents: the subscribers of event_occurred are called with the event.  The events
\* of the competitors' orders are left out: those of the market data are kept.
event_occurred(w, event) ==
    IF w.exc THEN w
    ELSE IF w.ctl.writers["match_events"].subscribed THEN put(w, "match_events", event)
    ELSE w

\* -------------------------------------------------------- ScoreBoardWriter
ScoreRecord(team, operation, account) ==
    [team |-> team, operation |-> operation, etf_position |-> account.etf_position,
     future_position |-> account.future_position]

\* self.queue.put(ScoreRecord(...)): rows keeps the records of the running handler
put_record(w, record) ==
    [put(w, "score_board", record) EXCEPT !.rows = Append(@, record)]

breach(w, n) ==
    IF w.exc THEN w
    ELSE put_record(w, ScoreRecord(n, "Breach", w.comp[n].account))

disconnect(w, n) ==
    IF w.exc THEN w
    ELSE IF w.ctl.writers["score_board"].finished THEN w
    ELSE put_record(w, ScoreRecord(n, "Disconnect", w.comp[n].account))

tick(w, n) ==
    IF w.exc THEN w
    ELSE put_record(w, ScoreRecord(n, "Tick", w.comp[n].account))

\* -------------------------------------------------------------- Competitor
Competitor == [account |-> CompetitorAccount, active_volume |-> 0, buy_prices |-> <<>>,
               exec_connection |-> TRUE, last_client_order_id |-> -1, orders |-> {},
               sell_prices |-> <<>>, status |-> "OK", unhedged_etf_lots |-> UnhedgedLots]

\* Competitor.send_error: exec_connection.send_error raises when exec_connection is None
Competitor_send_error(w, n, client_order_id, message) ==
    IF w.exc THEN w
    ELSE IF ~w.comp[n].exec_connection THEN Raise(w)
    ELSE send_error(w, n, client_order_id, message)

send_error_and_close(w, n, client_order_id, message) ==
    close(Competitor_send_error(w, n, client_order_id, message), n)

\* a hard_breach that sends the error and leaves the channel open
hard_breach_stays_open(w, n, client_order_id, message) ==
    IF w.exc THEN w
    ELSE breach(Competitor_send_error([w EXCEPT !.comp[n].status = "BREACH"],
                                      n, client_order_id, message), n)

hard_breach(w, n, client_order_id, message) ==
    IF w.exc THEN w
    ELSE breach(send_error_and_close([w EXCEPT !.comp[n].status = "BREACH"],
                                     n, client_order_id, message), n)

\* a ForgetOrder that leaves the order in self.orders
ForgetOrder_keeps_order(w, n, o) ==
    IF w.exc THEN w
    ELSE IF o.side = BUY
    THEN IF PopBisectRaises(w.comp[n].buy_prices, o.price) THEN Raise(w)
         ELSE [w EXCEPT !.comp[n].buy_prices = PopBisect(@, o.price)]
    ELSE IF PopBisectRaises(w.comp[n].sell_prices, -o.price) THEN Raise(w)
         ELSE [w EXCEPT !.comp[n].sell_prices = PopBisect(@, -o.price)]

\* del self.orders[id]; then the pop from buy_prices / sell_prices by bisect
ForgetOrder(w, n, o) ==
    LET Pop(w1) ==
            IF o.side = BUY
            THEN IF PopBisectRaises(w1.comp[n].buy_prices, o.price) THEN Raise(w1)
                 ELSE [w1 EXCEPT !.comp[n].buy_prices = PopBisect(@, o.price)]
            ELSE IF PopBisectRaises(w1.comp[n].sell_prices, -o.price) THEN Raise(w1)
                 ELSE [w1 EXCEPT !.comp[n].sell_prices = PopBisect(@, -o.price)]
    IN  IF w.exc THEN w
        ELSE IF o.client_order_id \notin w.comp[n].orders THEN Raise(w)
        ELSE Pop([w EXCEPT !.comp[n].orders = @ \ {o.client_order_id}])

\* self.active_volume -= volume_removed, once the order status has been sent
ReleaseVolume(w, n, volume_removed) ==
    IF w.exc THEN w ELSE [w EXCEPT !.comp[n].active_volume = @ - volume_removed]

Competitor_on_order_amended(w, n, oid, volume_removed) ==
    LET o == w.ord[oid]
        Forget(w2) == IF o.remaining_volume = 0 THEN ForgetOrder(w2, n, o) ELSE w2
    IN  IF w.exc THEN w
        ELSE Forget(ReleaseVolume(
                 IF w.comp[n].exec_connection
                 THEN send_order_status(w, n, o.client_order_id,
                                        o.volume - o.remaining_volume, o.remaining_volume,
                                        o.total_fees)
                 ELSE w,
                 n, volume_removed))

Competitor_on_order_cancelled(w, n, oid, volume_removed) ==
    LET o == w.ord[oid]
    IN  IF w.exc THEN w
        ELSE ForgetOrder(ReleaseVolume(
                 IF w.comp[n].exec_connection
                 THEN send_order_status(w, n, o.client_order_id, o.volume - volume_removed,
                                        o.remaining_volume, o.total_fees)
                 ELSE w,
                 n, volume_removed), n, o)

Competitor_on_order_placed(w, n, oid) ==
    LET o == w.ord[oid]
    IN  IF w.exc THEN w
        ELSE IF o.volume = o.remaining_volume /\ w.comp[n].exec_connection
        THEN send_order_status(w, n, o.client_order_id, 0, o.remaining_volume, o.total_fees)
        ELSE w

\* the Future anchor of on_order_filled: last_traded_price() or round(midpoint_price())
FutureAnchor(w) ==
    IF last_traded_price(w, FUTURE) \notin {None, 0} THEN last_traded_price(w, FUTURE)
    ELSE IF midpoint_price2(w, FUTURE) = None THEN None
    ELSE round(midpoint_price2(w, FUTURE), 2)

\* The steps of on_order_filled, in the order of the code: the active volume, the live
\* orders and own prices, the unhedged lots, the Future anchor, the account, the messages
\* to the client and the position limit.
Competitor_on_order_filled(w, n, oid, price, volume, fee) ==
    LET o == w.ord[oid]
        delta == IF o.side = BUY THEN volume ELSE -volume
        Limit(w5) ==
            IF w5.exc THEN w5
            ELSE IF ~(-w.cfg.PositionLimit <= w5.comp[n].account.etf_position
                      /\ w5.comp[n].account.etf_position <= w.cfg.PositionLimit)
            THEN hard_breach(w5, n, o.client_order_id, "ETF position limit breached")
            ELSE w5
        Send(w4) ==
            IF w4.exc \/ ~w4.comp[n].exec_connection THEN w4
            ELSE Limit(send_order_status(
                           send_order_filled(w4, n, o.client_order_id, price, volume),
                           n, o.client_order_id, o.volume - o.remaining_volume,
                           o.remaining_volume, o.total_fees))
        Account(w3) ==
            IF w3.exc THEN w3
            ELSE IF FutureAnchor(w3) = None THEN Raise(w3)
            ELSE Send([w3 EXCEPT !.comp[n].account = transact(@, ETF, o.side, price, volume, fee)])
        Unhedged(w2) ==
            IF w2.exc THEN w2
            ELSE IF apply_position_delta_raises(w2.comp[n].unhedged_etf_lots, delta)
            THEN Raise(w2)
            ELSE Account([w2 EXCEPT !.comp[n].unhedged_etf_lots =
                                         apply_position_delta(@, delta, w2.time)])
        PopPrice(w1a) ==
            IF o.side = BUY
            THEN IF Len(w1a.comp[n].buy_prices) = 0 THEN Raise(w1a)
                 ELSE [w1a EXCEPT !.comp[n].buy_prices = Front(@)]
            ELSE IF Len(w1a.comp[n].sell_prices) = 0 THEN Raise(w1a)
                 ELSE [w1a EXCEPT !.comp[n].sell_prices = Front(@)]
        Orders(w1) ==
            IF o.remaining_volume # 0 THEN w1
            ELSE IF o.client_order_id \notin w1.comp[n].orders THEN Raise(w1)
            ELSE PopPrice([w1 EXCEPT !.comp[n].orders = @ \ {o.client_order_id}])
    IN  IF w.exc THEN w
        ELSE Unhedged(Orders([w EXCEPT !.comp[n].active_volume = @ - volume]))

\* ------------------------------------- MarketEventsReader: IOrderListener
\* future_orders / etf_orders: dicts from order id to the Order object
ReaderOrders(w, instrument) ==
    IF instrument = FUTURE THEN w.mr.future_orders ELSE w.mr.etf_orders

SetReaderOrders(w, instrument, d) ==
    IF instrument = FUTURE THEN [w EXCEPT !.mr.future_orders = d]
    ELSE [w EXCEPT !.mr.etf_orders = d]

Reader_on_order_amended(w0, oid, volume_removed) ==
    IF w0.exc THEN w0
    ELSE LET o == w0.ord[oid]
             w == event_occurred(w0, MatchEvent("", "AMEND", o.client_order_id,
                                                -volume_removed))
         IN  IF o.remaining_volume # 0 THEN w
             ELSE IF o.client_order_id \notin DOMAIN ReaderOrders(w, o.instrument)
             THEN Raise(w)
             ELSE SetReaderOrders(w, o.instrument,
                                  DictDel(ReaderOrders(w, o.instrument), o.client_order_id))

Reader_on_order_cancelled(w0, oid, volume_removed) ==
    IF w0.exc THEN w0
    ELSE LET o == w0.ord[oid]
             w == event_occurred(w0, MatchEvent("", "CANCEL", o.client_order_id,
                                                -volume_removed))
         IN  SetReaderOrders(w, o.instrument,
                             DictDel(ReaderOrders(w, o.instrument), o.client_order_id))

Reader_on_order_placed(w, oid) ==
    IF w.exc THEN w
    ELSE LET o == w.ord[oid]
         IN  SetReaderOrders(w, o.instrument,
                             DictSet(ReaderOrders(w, o.instrument), o.client_order_id, oid))

Reader_on_order_filled(w, oid, price, volume, fee) ==
    IF w.exc THEN w
    ELSE LET o == w.ord[oid]
         IN  IF o.remaining_volume # 0 THEN w
             ELSE SetReaderOrders(w, o.instrument,
                                  DictDel(ReaderOrders(w, o.instrument), o.client_order_id))

\* ---------------------------------------------- order.listener.on_order_*
\* The resting orders of the order's side that rank before it: those at a strictly
\* better price, and those at its price with a place nearer the head of the queue.
Resting(w, oid) ==
    LET lv == w.book[w.ord[oid].instrument].levels
    IN  {x \in UNION {{lv[p][j] : j \in 1..Len(lv[p])} : p \in DOMAIN lv} \ {oid} :
            w.ord[x].side = w.ord[oid].side /\ w.ord[x].remaining_volume > 0}

Better(w, oid) ==
    {x \in Resting(w, oid) :
        IF w.ord[oid].side = BUY THEN w.ord[x].price > w.ord[oid].price
        ELSE w.ord[x].price < w.ord[oid].price}

Earlier(w, oid) ==
    LET q == IF w.ord[oid].price \in DOMAIN w.book[w.ord[oid].instrument].levels
             THEN w.book[w.ord[oid].instrument].levels[w.ord[oid].price] ELSE <<>>
    IN  {x \in Resting(w, oid) :
            \E a, b \in 1..Len(q) : a < b /\ q[a] = x /\ q[b] = oid}

\* the record of one listener callback: the order as the listener sees it
Callback(w, cb, oid, price, volume) ==
    [cb |-> cb, oid |-> oid, instrument |-> w.ord[oid].instrument,
     listener |-> w.ord[oid].listener, side |-> w.ord[oid].side,
     lifespan |-> w.ord[oid].lifespan, price |-> price, volume |-> volume,
     order_price |-> w.ord[oid].price, order_volume |-> w.ord[oid].volume,
     remaining_volume |-> w.ord[oid].remaining_volume,
     better |-> Better(w, oid), earlier |-> Earlier(w, oid),
     queued |-> \E p \in DOMAIN w.book[w.ord[oid].instrument].levels :
                   \E j \in 1..Len(w.book[w.ord[oid].instrument].levels[p]) :
                      w.book[w.ord[oid].instrument].levels[p][j] = oid]

Listener(w, cb, oid, price, volume) ==
    IF w.exc THEN w ELSE [w EXCEPT !.cbs = Append(@, Callback(w, cb, oid, price, volume))]

on_order_amended(w, oid, volume_removed) ==
    IF w.ord[oid].listener = READER
    THEN Reader_on_order_amended(Listener(w, "amended", oid, 0, volume_removed),
                                 oid, volume_removed)
    ELSE Competitor_on_order_amended(Listener(w, "amended", oid, 0, volume_removed),
                                     w.ord[oid].listener, oid, volume_removed)

on_order_cancelled(w, oid, volume_removed) ==
    IF w.ord[oid].listener = READER
    THEN Reader_on_order_cancelled(Listener(w, "cancelled", oid, 0, volume_removed),
                                   oid, volume_removed)
    ELSE Competitor_on_order_cancelled(Listener(w, "cancelled", oid, 0, volume_removed),
                                       w.ord[oid].listener, oid, volume_removed)

on_order_placed(w, oid) ==
    IF w.ord[oid].listener = READER
    THEN Reader_on_order_placed(Listener(w, "placed", oid, 0, 0), oid)
    ELSE Competitor_on_order_placed(Listener(w, "placed", oid, 0, 0), w.ord[oid].listener, oid)

on_order_filled(w, oid, price, volume, fee) ==
    IF w.ord[oid].listener = READER
    THEN Reader_on_order_filled(Listener(w, "filled", oid, price, volume),
                                oid, price, volume, fee)
    ELSE Competitor_on_order_filled(Listener(w, "filled", oid, price, volume),
                                    w.ord[oid].listener, oid, price, volume, fee)

\* ------------------------------------------------- OrderBook: operations
maker_fee(i, price, volume) ==
    IF i = FUTURE THEN 0 ELSE round(price * volume * MakerFeeNum, FeeDen)
taker_fee(i, price, volume) ==
    IF i = FUTURE THEN 0 ELSE round(price * volume * TakerFeeNum, FeeDen)

amend(w, i, oid, new_volume) ==
    LET o == w.ord[oid]
        fill_volume == o.volume - o.remaining_volume
        diff == o.volume - (IF new_volume < fill_volume THEN fill_volume ELSE new_volume)
        Update(w1) ==
            IF w1.exc THEN w1
            ELSE [w1 EXCEPT !.ord[oid].volume = @ - diff, !.ord[oid].remaining_volume = @ - diff]
    IN  IF w.exc THEN w
        ELSE IF o.remaining_volume > 0
        THEN on_order_amended(Update(remove_volume_from_level(w, i, o.price, diff, o.side)),
                              oid, diff)
        ELSE w

cancel(w, i, oid) ==
    LET o == w.ord[oid]
        Update(w1) == IF w1.exc THEN w1 ELSE [w1 EXCEPT !.ord[oid].remaining_volume = 0]
    IN  IF w.exc THEN w
        ELSE IF o.remaining_volume > 0
        THEN on_order_cancelled(
                 Update(remove_volume_from_level(w, i, o.price, o.remaining_volume, o.side)),
                 oid, o.remaining_volume)
        ELSE w

place(w, i, oid) ==
    LET o == w.ord[oid]
        b == w.book[i]
        Level(b0) ==
            IF o.side = SELL THEN [b0 EXCEPT !.ask_prices = insort_left(@, -o.price)]
            ELSE [b0 EXCEPT !.bid_prices = insort_left(@, o.price)]
        Queue(b1) == [b1 EXCEPT !.levels[o.price] = Append(@, oid),
                                !.total_volumes[o.price] = @ + o.remaining_volume]
    IN  IF w.exc THEN w
        ELSE on_order_placed(
                 [w EXCEPT !.book[i] =
                     Queue(IF o.price \in DOMAIN b.levels THEN b
                           ELSE Level([b EXCEPT !.levels = DictSet(@, o.price, <<>>),
                                                !.total_volumes = DictSet(@, o.price, 0)]))],
                 oid)

\* the inner loop of trade_level: the result is the world with the local variables
RECURSIVE match_passive(_, _, _, _, _)
match_passive(w, i, best_price, remaining, total_volume) ==
    LET order_queue == w.book[i].levels[best_price]
        passive == Head(order_queue)
        p == w.ord[passive]
        volume == IF remaining < p.remaining_volume THEN remaining ELSE p.remaining_volume
        fee == maker_fee(i, best_price, volume)
    IN  IF w.exc \/ ~(remaining > 0 /\ total_volume > 0)
        THEN [w |-> w, remaining |-> remaining, total_volume |-> total_volume]
        ELSE IF Len(order_queue) = 0
        THEN [w |-> Raise(w), remaining |-> remaining, total_volume |-> total_volume]
        ELSE IF p.remaining_volume = 0
        THEN match_passive([w EXCEPT !.book[i].levels[best_price] = Tail(@)],
                           i, best_price, remaining, total_volume)
        ELSE match_passive(
                 on_order_filled([w EXCEPT !.ord[passive].remaining_volume = @ - volume,
                                           !.ord[passive].total_fees = @ + fee],
                                 passive, best_price, volume, fee),
                 i, best_price, remaining - volume, total_volume - volume)

\* --------------------------------------------------- InformationPublisher
\* send_ticks_handles: the handle of the scheduled __send_trade_ticks of each instrument,
\* or None.  scheduled: how many __send_trade_ticks callbacks of each instrument the event
\* loop holds.  unreported: the volume traded since the last trade_ticks that returned
\* True, a history the program does not keep.
InformationPublisher ==
    [send_ticks_handles |-> [i \in Instruments |-> "None"],
     scheduled |-> [i \in Instruments |-> 0],
     trade_ticks_sequences |-> [i \in Instruments |-> 1],
     unreported |-> [i \in Instruments |-> 0]]

\* an on_trade that schedules an emission for every trade
on_trade_every_trade(w, i) ==
    IF w.exc THEN w
    ELSE [w EXCEPT !.pub.send_ticks_handles[i] = "handle",
                   !.pub.scheduled[i] = @ + 1]

\* InformationPublisher.on_trade, the subscriber of trade_occurred of both books
on_trade(w, i) ==
    IF w.exc THEN w
    ELSE IF w.pub.send_ticks_handles[i] = "None"
    THEN [w EXCEPT !.pub.send_ticks_handles[i] = "handle",
                   !.pub.scheduled[i] = @ + 1]
    ELSE w

\* trade_level after the inner loop, m being the loop's result: the level's total, the
\* trade ticks, the fill of the incoming order, then last_traded_price and trade_occurred
trade_level_aggressor(m, i, oid, best_price) ==
    LET order == m.w.ord[oid]
        traded_volume_at_this_level == order.remaining_volume - m.remaining
        fee == taker_fee(i, best_price, traded_volume_at_this_level)
        Traded(w2) ==
            IF w2.exc THEN w2
            ELSE on_trade([w2 EXCEPT !.book[i].last_traded_price = best_price,
                                     !.book[i].trade_occurred = @ + 1], i)
    IN  IF m.w.exc THEN m.w
        ELSE Traded(on_order_filled(
                 [m.w EXCEPT
                    !.book[i].total_volumes[best_price] = m.total_volume,
                    !.book[i].ask_ticks =
                        IF order.side = BUY
                        THEN DictSet(@, best_price, DictGet(@, best_price, 0)
                                                    + traded_volume_at_this_level)
                        ELSE @,
                    !.book[i].bid_ticks =
                        IF order.side = BUY THEN @
                        ELSE DictSet(@, best_price, DictGet(@, best_price, 0)
                                                    + traded_volume_at_this_level),
                    !.pub.unreported[i] = @ + traded_volume_at_this_level,
                    !.ord[oid].remaining_volume = m.remaining,
                    !.ord[oid].total_fees = @ + fee],
                 oid, best_price, traded_volume_at_this_level, fee))

trade_level(w, i, oid, best_price) ==
    IF w.exc THEN w
    ELSE IF best_price \notin DOMAIN w.book[i].levels THEN Raise(w)
    ELSE trade_level_aggressor(match_passive(w, i, best_price, w.ord[oid].remaining_volume,
                                             w.book[i].total_volumes[best_price]),
                               i, oid, best_price)

RECURSIVE trade_ask_loop(_, _, _, _)
trade_ask_loop(w, i, oid, best_bid) ==
    LET Pop(w2) ==
            IF Len(w2.book[i].bid_prices) = 0 THEN [w |-> w2, more |-> FALSE, best |-> 0]
            ELSE [w |-> w2, more |-> TRUE, best |-> Last(w2.book[i].bid_prices)]
        Level(w1) ==
            IF w1.exc THEN [w |-> w1, more |-> FALSE, best |-> 0]
            ELSE IF w1.book[i].total_volumes[best_bid] = 0
            THEN Pop([w1 EXCEPT !.book[i].levels = DictDel(@, best_bid),
                                !.book[i].total_volumes = DictDel(@, best_bid),
                                !.book[i].bid_prices = Front(@)])
            ELSE [w |-> w1, more |-> TRUE, best |-> best_bid]
        Again(r) == IF r.more THEN trade_ask_loop(r.w, i, oid, r.best) ELSE r.w
    IN  IF w.exc THEN w
        ELSE IF ~(w.ord[oid].remaining_volume > 0 /\ best_bid >= w.ord[oid].price) THEN w
        ELSE IF best_bid \notin DOMAIN w.book[i].total_volumes THEN Raise(w)
        ELSE IF ~(w.book[i].total_volumes[best_bid] > 0) THEN w
        ELSE Again(Level(trade_level(w, i, oid, best_bid)))

trade_ask(w, i, oid) == trade_ask_loop(w, i, oid, Last(w.book[i].bid_prices))

RECURSIVE trade_bid_loop(_, _, _, _)
trade_bid_loop(w, i, oid, best_ask) ==
    LET Pop(w2) ==
            IF Len(w2.book[i].ask_prices) = 0 THEN [w |-> w2, more |-> FALSE, best |-> 0]
            ELSE [w |-> w2, more |-> TRUE, best |-> -Last(w2.book[i].ask_prices)]
        Level(w1) ==
            IF w1.exc THEN [w |-> w1, more |-> FALSE, best |-> 0]
            ELSE IF w1.book[i].total_volumes[best_ask] = 0
            THEN Pop([w1 EXCEPT !.book[i].levels = DictDel(@, best_ask),
                                !.book[i].total_volumes = DictDel(@, best_ask),
                                !.book[i].ask_prices = Front(@)])
            ELSE [w |-> w1, more |-> TRUE, best |-> best_ask]
        Again(r) == IF r.more THEN trade_bid_loop(r.w, i, oid, r.best) ELSE r.w
    IN  IF w.exc THEN w
        ELSE IF ~(w.ord[oid].remaining_volume > 0 /\ best_ask <= w.ord[oid].price) THEN w
        ELSE IF best_ask \notin DOMAIN w.book[i].total_volumes THEN Raise(w)
        ELSE IF ~(w.book[i].total_volumes[best_ask] > 0) THEN w
        ELSE Again(Level(trade_level(w, i, oid, best_ask)))

trade_bid(w, i, oid) == trade_bid_loop(w, i, oid, -Last(w.book[i].ask_prices))

\* a Residual that places what is left of any order, whatever its lifespan
Residual_places(w, i, oid) ==
    IF w.exc THEN w
    ELSE IF w.ord[oid].remaining_volume > 0 THEN place(w, i, oid)
    ELSE w

\* the part of insert after the matching: the residual is cancelled or placed
Residual(w, i, oid) ==
    IF w.exc THEN w
    ELSE IF w.ord[oid].remaining_volume > 0
    THEN IF w.ord[oid].lifespan = FILL_AND_KILL
         THEN on_order_cancelled([w EXCEPT !.ord[oid].remaining_volume = 0], oid,
                                 w.ord[oid].remaining_volume)
         ELSE place(w, i, oid)
    ELSE w

insert(w, i, oid) ==
    LET o == w.ord[oid]
        b == w.book[i]
    IN  IF w.exc THEN w
        ELSE Residual(IF o.side = SELL /\ Len(b.bid_prices) > 0 /\ o.price <= Last(b.bid_prices)
                      THEN trade_ask(w, i, oid)
                      ELSE IF o.side = BUY /\ Len(b.ask_prices) > 0
                              /\ o.price >= -Last(b.ask_prices)
                      THEN trade_bid(w, i, oid)
                      ELSE w,
                      i, oid)

\* try_trade(side, limit_price, volume): <<total_volume, average price>>, the book unchanged
RECURSIVE try_trade_loop(_, _, _, _, _, _, _)
try_trade_loop(b, side, limit_price, volume, j, total_volume, total_value) ==
    LET price == IF side = SELL THEN b.bid_prices[j] ELSE -b.ask_prices[j]
    IN  IF ~(total_volume < volume /\ j >= 1 /\ price # 0
             /\ (IF side = SELL THEN price >= limit_price ELSE price <= limit_price))
        THEN <<total_volume, IF total_volume > 0 THEN total_value \div total_volume ELSE 0>>
        ELSE LET available == b.total_volumes[price]
                 required == volume - total_volume
                 weight == IF required <= available THEN required ELSE available
             IN  try_trade_loop(b, side, limit_price, volume, j - 1, total_volume + weight,
                                total_value + weight * price)

\* a try_trade that goes one tick past the limit price
try_trade_past_limit(w, i, side, limit_price, volume) ==
    try_trade_loop(w.book[i], side,
                   IF side = SELL THEN limit_price - TickSize ELSE limit_price + TickSize, volume,
                   IF side = SELL THEN Len(w.book[i].bid_prices) ELSE Len(w.book[i].ask_prices),
                   0, 0)

try_trade(w, i, side, limit_price, volume) ==
    try_trade_loop(w.book[i], side, limit_price, volume,
                   IF side = SELL THEN Len(w.book[i].bid_prices) ELSE Len(w.book[i].ask_prices),
                   0, 0)

\* ------------------------------------------- Competitor: message callbacks
\* an id check that lets the last id through again
StaleId_strict(c, client_order_id) == client_order_id < c.last_client_order_id

\* the id check of insert and hedge: client_order_id <= self.last_client_order_id
StaleId(c, client_order_id) == client_order_id <= c.last_client_order_id

\* an id check that turns the last id away too
UnseenId_or_last(c, client_order_id) == client_order_id >= c.last_client_order_id

\* the id check of amend and cancel: client_order_id > self.last_client_order_id
UnseenId(c, client_order_id) == client_order_id > c.last_client_order_id

\* a volume check that rejects an order that reaches the limit
VolumeLimitBreached_at_limit(c, volume, active_volume_limit) ==
    c.active_volume + volume >= active_volume_limit

\* self.active_volume + volume > self.active_volume_limit
VolumeLimitBreached(c, volume, active_volume_limit) ==
    c.active_volume + volume > active_volume_limit

\* a cross check that lets an order at the price of an own order through
InCross_strict(c, side, price) ==
    \/ side = BUY /\ Len(c.sell_prices) > 0 /\ price > -Last(c.sell_prices)
    \/ side = SELL /\ Len(c.buy_prices) > 0 /\ price < Last(c.buy_prices)

\* the order would cross the best of the competitor's own prices on the other side
InCross(c, side, price) ==
    \/ side = BUY /\ Len(c.sell_prices) > 0 /\ price >= -Last(c.sell_prices)
    \/ side = SELL /\ Len(c.buy_prices) > 0 /\ price <= Last(c.buy_prices)

on_amend_message_any_volume(w, n, client_order_id, volume) ==
    IF w.exc THEN w
    ELSE IF UnseenId(w.comp[n], client_order_id)
    THEN Competitor_send_error(w, n, client_order_id,
                               "out-of-order client_order_id in amend message")
    ELSE IF client_order_id \in w.comp[n].orders
    THEN amend(w, ETF, <<n, client_order_id>>, volume)
    ELSE w

on_amend_message(w, n, client_order_id, volume) ==
    IF w.exc THEN w
    ELSE IF UnseenId(w.comp[n], client_order_id)
    THEN Competitor_send_error(w, n, client_order_id,
                               "out-of-order client_order_id in amend message")
    ELSE IF client_order_id \in w.comp[n].orders
    THEN IF volume > w.ord[<<n, client_order_id>>].volume
         THEN Competitor_send_error(w, n, client_order_id,
                                    "amend operation would increase order volume")
         ELSE amend(w, ETF, <<n, client_order_id>>, volume)
    ELSE w

on_cancel_message(w, n, client_order_id) ==
    IF w.exc THEN w
    ELSE IF UnseenId(w.comp[n], client_order_id)
    THEN Competitor_send_error(w, n, client_order_id,
                               "out-of-order client_order_id in cancel message")
    ELSE IF client_order_id \in w.comp[n].orders
    THEN cancel(w, ETF, <<n, client_order_id>>)
    ELSE w

\* last_traded_price() or midpoint_price(), times two; None when neither exists
PriceOrMidpoint2(w, i) ==
    IF last_traded_price(w, i) \notin {None, 0} THEN 2 * last_traded_price(w, i)
    ELSE midpoint_price2(w, i)

\* a hedge that is matched in the Future book as a fill and kill order
on_hedge_message_trades(w, n, now, client_order_id, side, price, volume) ==
    IF w.exc \/ volume < 1 THEN w
    ELSE insert([w EXCEPT !.ord = DictSet(@, <<n, client_order_id>>,
                                          Order(client_order_id, FUTURE, FILL_AND_KILL, side,
                                                price, volume, n)),
                          !.comp[n].last_client_order_id = client_order_id],
                FUTURE, <<n, client_order_id>>)

on_hedge_message(w, n, now, client_order_id, side, price, volume) ==
    LET Limit(w4) ==
            IF w4.exc THEN w4
            ELSE IF ~(-w.cfg.PositionLimit <= w4.comp[n].account.future_position
                      /\ w4.comp[n].account.future_position <= w.cfg.PositionLimit)
            THEN hard_breach(w4, n, client_order_id, "future position limit breached")
            ELSE w4
        Filled(w3, t) ==
            IF w3.exc \/ ~w3.comp[n].exec_connection THEN w3
            ELSE Limit(send_hedge_filled(w3, n, client_order_id, t[2], t[1]))
        Update(w2) ==
            IF update_raises(PriceOrMidpoint2(w2, FUTURE), PriceOrMidpoint2(w2, ETF))
            THEN Raise(w2) ELSE w2
        Trade(w1, t) ==
            LET volume_traded == t[1]
                average_price == t[2]
                delta == IF side = BUY THEN volume_traded ELSE -volume_traded
            IN  Filled(IF volume_traded = 0 THEN w1
                       ELSE IF apply_position_delta_raises(w1.comp[n].unhedged_etf_lots, delta)
                       THEN Raise(w1)
                       ELSE Update([w1 EXCEPT
                                      !.comp[n].unhedged_etf_lots =
                                          apply_position_delta(@, delta, w1.time),
                                      !.comp[n].account =
                                          transact(@, FUTURE, side, average_price,
                                                   volume_traded, 0)]),
                       t)
        Validate(w0) ==
            IF side \notin {BUY, SELL}
            THEN Competitor_send_error(w0, n, client_order_id, "not a valid side")
            ELSE IF price % TickSize # 0
            THEN Competitor_send_error(w0, n, client_order_id,
                                       "price is not a multiple of tick size")
            ELSE IF volume < 1
            THEN Competitor_send_error(w0, n, client_order_id,
                                       "order rejected: invalid volume")
            ELSE IF now = 0
            THEN Competitor_send_error(w0, n, client_order_id,
                                       "order rejected: market not yet open")
            ELSE Trade(w0, try_trade(w0, FUTURE, side, price, volume))
    IN  IF w.exc THEN w
        ELSE IF StaleId(w.comp[n], client_order_id)
        THEN Competitor_send_error(w, n, client_order_id,
                                   "duplicate or out-of-order client_order_id")
        ELSE Validate([w EXCEPT !.comp[n].last_client_order_id = client_order_id])

\* an on_insert_message that records the id only of the requests it accepts
on_insert_message_keeps_id(w, n, now, client_order_id, side, price, volume, lifespan) ==
    LET oid == <<n, client_order_id>>
        w0 == [w EXCEPT !.comp[n].last_client_order_id = client_order_id]
    IN  IF w.exc THEN w
        ELSE IF StaleId(w.comp[n], client_order_id)
        THEN Competitor_send_error(w, n, client_order_id,
                                   "duplicate or out-of-order client_order_id")
        ELSE IF side \notin {BUY, SELL}
        THEN Competitor_send_error(w, n, client_order_id, "not a valid side")
        ELSE IF lifespan \notin {FILL_AND_KILL, GOOD_FOR_DAY}
        THEN Competitor_send_error(w, n, client_order_id, "not a valid lifespan")
        ELSE IF price % TickSize # 0
        THEN Competitor_send_error(w, n, client_order_id,
                                   "price is not a multiple of tick size")
        ELSE IF Cardinality(w0.comp[n].orders) = w.cfg.ActiveOrderCountLimit
        THEN Competitor_send_error(w, n, client_order_id,
                                   "order rejected: active order count limit breached")
        ELSE IF volume < 1
        THEN Competitor_send_error(w, n, client_order_id,
                                   "order rejected: invalid volume")
        ELSE IF VolumeLimitBreached(w0.comp[n], volume, w.cfg.ActiveVolumeLimit)
        THEN Competitor_send_error(w, n, client_order_id,
                                   "order rejected: active order volume limit breached")
        ELSE IF now = 0
        THEN Competitor_send_error(w, n, client_order_id,
                                   "order rejected: market not yet open")
        ELSE IF InCross(w0.comp[n], side, price)
        THEN Competitor_send_error(w, n, client_order_id,
                                   "order rejected: in cross with an existing order")
        ELSE insert([w0 EXCEPT
                       !.ord = DictSet(@, oid, Order(client_order_id, ETF, lifespan, side,
                                                     price, volume, n)),
                       !.comp[n].orders = @ \cup {client_order_id},
                       !.comp[n].buy_prices = IF side = BUY THEN insort(@, price) ELSE @,
                       !.comp[n].sell_prices = IF side = BUY THEN @ ELSE insort(@, -price),
                       !.comp[n].active_volume = @ + volume],
                    ETF, oid)

on_insert_message(w, n, now, client_order_id, side, price, volume, lifespan) ==
    LET oid == <<n, client_order_id>>
        w0 == [w EXCEPT !.comp[n].last_client_order_id = client_order_id]
    IN  IF w.exc THEN w
        ELSE IF StaleId(w.comp[n], client_order_id)
        THEN Competitor_send_error(w, n, client_order_id,
                                   "duplicate or out-of-order client_order_id")
        ELSE IF side \notin {BUY, SELL}
        THEN Competitor_send_error(w0, n, client_order_id, "not a valid side")
        ELSE IF lifespan \notin {FILL_AND_KILL, GOOD_FOR_DAY}
        THEN Competitor_send_error(w0, n, client_order_id, "not a valid lifespan")
        ELSE IF price % TickSize # 0
        THEN Competitor_send_error(w0, n, client_order_id,
                                   "price is not a multiple of tick size")
        ELSE IF Cardinality(w0.comp[n].orders) = w.cfg.ActiveOrderCountLimit
        THEN Competitor_send_error(w0, n, client_order_id,
                                   "order rejected: active order count limit breached")
        ELSE IF volume < 1
        THEN Competitor_send_error(w0, n, client_order_id,
                                   "order rejected: invalid volume")
        ELSE IF VolumeLimitBreached(w0.comp[n], volume, w.cfg.ActiveVolumeLimit)
        THEN Competitor_send_error(w0, n, client_order_id,
                                   "order rejected: active order volume limit breached")
        ELSE IF now = 0
        THEN Competitor_send_error(w0, n, client_order_id,
                                   "order rejected: market not yet open")
        ELSE IF InCross(w0.comp[n], side, price)
        THEN Competitor_send_error(w0, n, client_order_id,
                                   "order rejected: in cross with an existing order")
        ELSE insert([w0 EXCEPT
                       !.ord = DictSet(@, oid, Order(client_order_id, ETF, lifespan, side,
                                                     price, volume, n)),
                       !.comp[n].orders = @ \cup {client_order_id},
                       !.comp[n].buy_prices = IF side = BUY THEN insort(@, price) ELSE @,
                       !.comp[n].sell_prices = IF side = BUY THEN @ ELSE insort(@, -price),
                       !.comp[n].active_volume = @ + volume],
                    ETF, oid)

\* for o in tuple(self.orders.values()): self.etf_book.cancel(now, o), in insertion order
RECURSIVE cancel_all(_, _, _)
cancel_all(w, n, ids) ==
    IF w.exc \/ ids = {} THEN w
    ELSE LET id == CHOOSE x \in ids : \A y \in ids : x <= y
         IN  cancel_all(cancel(w, ETF, <<n, id>>), n, ids \ {id})

on_connection_lost(w, n) ==
    IF w.exc THEN w
    ELSE cancel_all(disconnect([w EXCEPT !.comp[n].exec_connection = FALSE], n),
                    n, w.comp[n].orders)

\* ------------------------------------------------------ FrequencyLimiter
\* sys.float_info.epsilon is 2^-52: EpsilonRoot * EpsilonRoot = 2^52
EpsilonRoot == 67108864

\* (first if first > window_start else window_start) * epsilon, in whole units of the
\* clock: times are whole numbers of units
Tolerance(first, window_start) ==
    ((IF first > window_start THEN first ELSE window_start) \div EpsilonRoot) \div EpsilonRoot

\* a loop that keeps the event at the start of the window
Outside_closed_window(first, window_start) ==
    (first - window_start) < Tolerance(first, window_start)

\* the condition of the while loop of check_event
Outside(first, window_start) ==
    (first - window_start) <= Tolerance(first, window_start)

\* the while loop of check_event: <<>> stands for the IndexError of events[0] on a deque
\* that the loop has emptied
RECURSIVE popleft_loop(_, _)
popleft_loop(events, window_start) ==
    IF events = <<>> THEN <<>>
    ELSE IF Outside(Head(events), window_start)
    THEN popleft_loop(Tail(events), window_start)
    ELSE events

\* the events left in the deque after check_event(now); value is their number
check_event(events, interval, now) == popleft_loop(Append(events, now), now - interval)

\* events[0] on the emptied deque
check_event_raises(events, interval, now) == check_event(events, interval, now) = <<>>

\* ------------------------------------------------- the writers: finish
\* MatchEventsWriter.finish and ScoreBoardWriter.finish: event_occurred.remove(queue.put)
\* raises a ValueError when queue.put has been removed already
finish(w, x) ==
    IF w.exc THEN w
    ELSE IF x = "match_events" /\ ~w.ctl.writers[x].subscribed
    THEN Raise([w EXCEPT !.ctl.writers[x].finishes = @ + 1])
    ELSE [put(w, x, Sentinel) EXCEPT !.ctl.writers[x].finished = TRUE,
                                     !.ctl.writers[x].finishes = @ + 1,
                                     !.ctl.writers[x].subscribed = @ /\ x # "match_events"]

\* a writer thread that ends at the None without a word to the event loop
writer_unposted(w, x) ==
    IF Head(w.ctl.writers[x].queue) = Sentinel
    THEN [w EXCEPT !.ctl.writers[x].queue = Tail(@),
                   !.ctl.writers[x].thread = "done"]
    ELSE [w EXCEPT !.ctl.writers[x].queue = Tail(@),
                   !.ctl.writers[x].file = Append(@, Head(w.ctl.writers[x].queue))]

\* the writer thread takes one item from its queue: it writes a record, and on a None
\* it closes the file and posts on_writer_done to the event loop
writer(w, x) ==
    IF Head(w.ctl.writers[x].queue) = Sentinel
    THEN [w EXCEPT !.ctl.writers[x].queue = Tail(@),
                   !.ctl.writers[x].thread = "done",
                   !.ctl.writers[x].callbacks = @ + 1,
                   !.ctl.writers[x].posted = @ + 1]
    ELSE [w EXCEPT !.ctl.writers[x].queue = Tail(@),
                   !.ctl.writers[x].file = Append(@, Head(w.ctl.writers[x].queue))]

\* ------------------------------------------------- Controller: the shutdown
\* one statement after another: F applied to the world w1 the statements before it left
Then(w1, F(_)) == CHOOSE w2 \in {F(v) : v \in {w1}} : TRUE

\* an on_task_complete that stops the loop as soon as one writer is complete
on_task_complete_either(w, task) ==
    LET w1 == IF task = "reader" THEN [w EXCEPT !.ctl.done = TRUE]
              ELSE [w EXCEPT !.ctl.refs[task] = FALSE]
    IN  IF w.exc THEN w
        ELSE IF \E x \in Writers : ~w1.ctl.refs[x]
        THEN [w1 EXCEPT !.ctl.loop_stopped = TRUE]
        ELSE w1

\* Controller.on_task_complete: task is a writer or "reader"
on_task_complete(w, task) ==
    LET w1 == IF task = "reader" THEN [w EXCEPT !.ctl.done = TRUE]
              ELSE [w EXCEPT !.ctl.refs[task] = FALSE]
    IN  IF w.exc THEN w
        ELSE IF \A x \in Writers : ~w1.ctl.refs[x]
        THEN [w1 EXCEPT !.ctl.loop_stopped = TRUE]
        ELSE w1

\* on_writer_done, run by the event loop
on_writer_done(w, x) ==
    on_task_complete([w EXCEPT !.ctl.writers[x].callbacks = @ - 1], x)

\* self.__match_events_writer.finish(): an AttributeError when the reference is None
Controller_finish(w, x) ==
    IF w.exc THEN w
    ELSE IF ~w.ctl.refs[x] THEN Raise(w)
    ELSE finish(w, x)

\* Controller.on_tick_timer_stopped
on_tick_timer_stopped(w) ==
    Then(Controller_finish(w, "match_events"), LAMBDA w1 : Controller_finish(w1, "score_board"))

\* Competitor.disconnect
Competitor_disconnect(w, n) ==
    IF w.exc THEN w
    ELSE IF w.comp[n].exec_connection THEN close(w, n)
    ELSE w

\* CompetitorManager.on_timer_stopped: every competitor of __competitors, a dictionary
\* that keeps the order of the logins, is disconnected
RECURSIVE on_timer_stopped(_, _)
on_timer_stopped(w, names) ==
    IF names = <<>> THEN w
    ELSE Then(Competitor_disconnect(w, Head(names)),
              LAMBDA w1 : on_timer_stopped(w1, Tail(names)))

\* Timer.shutdown of the tick timer: the handle the timer holds is cancelled, which stops
\* a tick that is scheduled and does nothing to a tick that is running; then the
\* subscribers of timer_stopped are called.  shutdowns counts the calls, a history the
\* program does not keep, and reasons the reasons it has logged.
shutdown(w, reason) ==
    IF w.exc THEN w
    ELSE Then(Then([w EXCEPT !.ctl.tick_timer.handle =
                                 IF @ = "scheduled" THEN "cancelled" ELSE @,
                             !.ctl.tick_timer.shutdowns = @ + 1,
                             !.ctl.tick_timer.reasons = @ \cup {reason}],
                   LAMBDA w1 : on_timer_stopped(w1, w1.ctl.competitors)),
              on_tick_timer_stopped)

\* ScoreBoardWriter.tick for every competitor of __competitors
RECURSIVE tick_all(_, _)
tick_all(w, names) ==
    IF names = <<>> THEN w
    ELSE Then(tick(w, Head(names)), LAMBDA w1 : tick_all(w1, Tail(names)))

\* the connections made and not lost
active_competitor_count(w) ==
    Cardinality({n \in Names : w.conn[n].transport \in {"open", "closing"}})

\* CompetitorManager.on_timer_tick
CompetitorManager_on_timer_tick(w) ==
    IF w.exc THEN w
    ELSE Then(tick_all(w, w.ctl.competitors),
              LAMBDA w1 : IF active_competitor_count(w1) = 0
                          THEN shutdown(w1, "no remaining competitors")
                          ELSE w1)

\* Controller.on_tick_timer_ticked
on_tick_timer_ticked(w) ==
    IF w.exc THEN w
    ELSE IF w.ctl.done THEN shutdown(w, "match complete")
    ELSE w

\* Timer.__on_timer_tick of the tick timer: the handle that ran is spent, the subscribers
\* of timer_ticked are called in the order setup() made them (the CompetitorManager, the
\* InformationPublisher, whose order book updates are left out, the Controller), and
\* then the next tick is scheduled, unless a subscriber raised
on_tick_timer_tick(w) ==
    LET Reschedule(w1) ==
            IF w1.exc THEN w1
            ELSE [w1 EXCEPT !.ctl.tick_timer.handle = "scheduled"]
    IN  IF w.exc THEN w
        ELSE Then(Then(Then([w EXCEPT !.ctl.tick_timer.handle = "spent",
                                      !.ctl.tick_timer.tick_number = @ + 1],
                            CompetitorManager_on_timer_tick),
                       on_tick_timer_ticked),
                  Reschedule)

\* --------------------------------------------- MarketEventsReader: replay
MarketEvent(time, instrument, operation, order_id, side, volume, price, lifespan) ==
    [time |-> time, instrument |-> instrument, operation |-> operation, order_id |-> order_id,
     side |-> side, volume |-> volume, price |-> price, lifespan |-> lifespan]

\* the None that ends the queue
NoEvent == MarketEvent(0, FUTURE, "None", 0, BUY, 0, 0, FILL_AND_KILL)

\* file and applied are a history the program does not keep: the events of the market
\* data file, and the events process_market_events has applied so far, in order
MarketEventsReader(file) ==
    [next_event |-> MarketEvent(0, FUTURE, "CANCEL", 0, BUY, 0, 0, FILL_AND_KILL),
     queue |-> file, future_orders |-> <<>>, etf_orders |-> <<>>, created |-> 0,
     file |-> file, applied |-> <<>>]

apply_event(w0, evt) ==
    LET w1 == [w0 EXCEPT !.mr.applied = Append(@, evt)]
        w == IF evt.operation = "INSERT"
             THEN event_occurred(w1, MatchEvent("", "INSERT", evt.order_id,
                                                IF evt.volume < 0 THEN -evt.volume
                                                ELSE evt.volume))
             ELSE w1
        orders == ReaderOrders(w, evt.instrument)
        oid == <<READER, w.mr.created + 1>>
    IN  IF evt.operation = "INSERT"
        THEN insert([w EXCEPT !.ord = DictSet(@, oid, Order(evt.order_id, evt.instrument,
                                                           evt.lifespan, evt.side, evt.price,
                                                           evt.volume, READER)),
                              !.mr.created = @ + 1],
                    evt.instrument, oid)
        ELSE IF evt.order_id \in DOMAIN orders
        THEN IF evt.operation = "CANCEL" THEN cancel(w, evt.instrument, orders[evt.order_id])
             ELSE IF evt.volume < 0
             THEN amend(w, evt.instrument, orders[evt.order_id],
                        w.ord[orders[evt.order_id]].volume + evt.volume)
             ELSE w
        ELSE w

\* the while loop: evt is the local variable; the queue is consumed as it goes, but
\* next_event is assigned only when the loop ends without an exception
RECURSIVE process_loop(_, _, _)
process_loop(w, evt, elapsed_time) ==
    LET Fetch(w1) ==
            IF w1.exc THEN w1
            ELSE process_loop([w1 EXCEPT !.mr.queue = Tail(@)], Head(w1.mr.queue), elapsed_time)
    IN  IF w.exc THEN w
        ELSE IF evt.operation # "None" /\ evt.time < elapsed_time
        THEN Fetch(apply_event(w, evt))
        ELSE IF evt.operation = "None"
        THEN on_task_complete([w EXCEPT !.mr.next_event = evt], "reader")
        ELSE [w EXCEPT !.mr.next_event = evt]

process_market_events(w, elapsed_time) ==
    process_loop([w EXCEPT !.time = elapsed_time], w.mr.next_event, elapsed_time)

\* Controller.advance_time: the market events up to now are applied first
advance_time(w, now) == process_market_events(w, now)

\* Controller.on_market_timer_ticked
on_market_timer_ticked(w, now) == process_market_events(w, now)

\* Timer.__on_timer_tick of the market timer: the next tick is scheduled after the
\* callbacks, so an exception out of one ends the ticking
on_timer_tick(w, now) ==
    LET Reschedule(w1) == IF w1.exc THEN [w1 EXCEPT !.ctl.market_timer = FALSE] ELSE w1
    IN  Reschedule(on_market_timer_ticked(w, now))

\* ------------------------------------------- ExecutionConnection: messages
\* the sizes of the messages of a client, header included
AMEND_MESSAGE_SIZE == 11
CANCEL_MESSAGE_SIZE == 7
HEDGE_MESSAGE_SIZE == 16
INSERT_MESSAGE_SIZE == 17
LOGIN_MESSAGE_SIZE == 103

\* the Traders section of the configuration: the secret of each name of the roster
Traders == ("A" :> "alpha") @@ ("B" :> "beta")

\* name in self.__competitors.  A Competitor is made by a successful login only and is
\* never removed; connection n is the one connection of auto-trader n, so name is a key
\* of __competitors exactly when connection name has logged in.
Registered(w, name) == name \in Names /\ w.conn[name].competitor

\* a login that takes any secret
Refused_any_secret(w, name, secret) ==
    Registered(w, name) \/ name \notin DOMAIN Traders

\* CompetitorManager.login_competitor returns None
Refused(w, name, secret) ==
    Registered(w, name) \/ name \notin DOMAIN Traders \/ Traders[name] # secret

\* ExecutionConnection.on_login with CompetitorManager.login_competitor: the connection
\* gets the new Competitor of that name, or closes
on_login(w, n, name, secret) ==
    IF w.exc THEN w
    ELSE IF Refused(w, name, secret) THEN close(w, n)
    ELSE [w EXCEPT !.conn[n].competitor = TRUE, !.comp[name] = Competitor,
                   !.ctl.competitors = Append(@, name)]

\* msg: [typ, coid, side, price, volume, lifespan]
\* on_message after advance_time: the frequency limiter counts the message
on_message_limiter(w, n, now) ==
    IF w.exc THEN w
    ELSE IF check_event_raises(w.conn[n].events, w.cfg.MessageFrequencyInterval, now)
    THEN Raise(w)
    ELSE [w EXCEPT !.conn[n].events = check_event(@, w.cfg.MessageFrequencyInterval, now),
                   !.conn[n].seen = Append(@, now)]

\* on_message after check_event: the breach, the login, or the message by its type
on_message_dispatch(w, n, now, msg) ==
    IF w.exc THEN w
    ELSE IF Len(w.conn[n].events) > w.cfg.MessageFrequencyLimit
    THEN IF w.conn[n].competitor
         THEN hard_breach(w, n, 0, "message frequency limit breached")
         ELSE close(w, n)
    ELSE IF ~w.conn[n].competitor
    THEN IF msg.typ = "LOGIN" /\ msg.length = LOGIN_MESSAGE_SIZE
         THEN on_login(w, n, msg.name, msg.secret)
         ELSE close(w, n)
    ELSE IF msg.typ = "AMEND_ORDER" /\ msg.length = AMEND_MESSAGE_SIZE
    THEN on_amend_message(w, n, msg.coid, msg.volume)
    ELSE IF msg.typ = "CANCEL_ORDER" /\ msg.length = CANCEL_MESSAGE_SIZE
    THEN on_cancel_message(w, n, msg.coid)
    ELSE IF msg.typ = "HEDGE_ORDER" /\ msg.length = HEDGE_MESSAGE_SIZE
    THEN on_hedge_message(w, n, now, msg.coid, msg.side, msg.price, msg.volume)
    ELSE IF msg.typ = "INSERT_ORDER" /\ msg.length = INSERT_MESSAGE_SIZE
    THEN on_insert_message(w, n, now, msg.coid, msg.side, msg.price, msg.volume,
                           msg.lifespan)
    ELSE close(w, n)

on_message(w, n, now, msg) ==
    on_message_dispatch(on_message_limiter(advance_time(w, now), n, now), n, now, msg)

\* a loop condition that goes on reading after close()
ReadMore_ignores_closing(c, data) == data # <<>>

\* while not self._closing and upto < data_length - HEADER_SIZE
ReadMore(c, data) == ~c.closing /\ data # <<>>

\* the while loop of data_received: data is the sequence of complete messages of one read
RECURSIVE data_received_loop(_, _, _, _)
data_received_loop(w, n, now, data) ==
    IF w.exc \/ ~ReadMore(w.conn[n], data) THEN w
    ELSE data_received_loop(on_message(w, n, now, Head(data)), n, now, Tail(data))

\* asyncio: an exception out of data_received force-closes the transport
data_received(w, n, now, data) ==
    LET Protocol(w1) ==
            IF w1.exc
            THEN [w1 EXCEPT !.conn[n].transport = IF @ = "open" THEN "closing" ELSE @]
            ELSE w1
    IN  Protocol(data_received_loop(w, n, now, data))

\* ExecutionConnection.connection_lost
connection_lost(w, n, now) ==
    IF w.conn[n].competitor
    THEN on_connection_lost(advance_time([w EXCEPT !.conn[n].transport = "lost"], now), n)
    ELSE [w EXCEPT !.conn[n].transport = "lost"]

\* Competitor.on_unhedged_lots_expiry, run by the event loop when the timer fires
on_unhedged_lots_expiry(w, n, now) ==
    LET Expired(w1) == [w1 EXCEPT !.comp[n].unhedged_etf_lots.timer_handle = "fired"]
    IN  IF w.comp[n].exec_connection
        THEN hard_breach(advance_time(Expired(w), now), n, 0,
                         "held unhedged lots for longer than the time limit")
        ELSE Expired(w)

\* ------------------------------------------------------- trade ticks
TOP_LEVEL_COUNT == 5

\* sorted(): the members of a set of numbers in ascending order
RECURSIVE sorted(_)
sorted(S) ==
    IF S = {} THEN <<>>
    ELSE LET least == CHOOSE x \in S : \A y \in S : x <= y
         IN  <<least>> \o sorted(S \ {least})

\* sorted(reverse=True)
RECURSIVE sorted_reverse(_)
sorted_reverse(S) ==
    IF S = {} THEN <<>>
    ELSE LET greatest == CHOOSE x \in S : \A y \in S : x >= y
         IN  <<greatest>> \o sorted_reverse(S \ {greatest})

\* prices[:TOP_LEVEL_COUNT]
TopLevels(prices) ==
    IF Len(prices) > TOP_LEVEL_COUNT THEN SubSeq(prices, 1, TOP_LEVEL_COUNT) ELSE prices

\* values + [0] * (TOP_LEVEL_COUNT - len(values))
ZeroPadded(values) ==
    values \o [k \in 1 .. (TOP_LEVEL_COUNT - Len(values)) |-> 0]

\* the volumes of the ticks at the prices, in the order of the prices
TickVolumes(ticks, prices) == [k \in 1 .. Len(prices) |-> ticks[prices[k]]]

\* OrderBook.trade_ticks: the four lists when there have been trades, which clears both
\* accumulators
trade_ticks(b) ==
    IF DOMAIN b.ask_ticks # {} \/ DOMAIN b.bid_ticks # {}
    THEN [result |-> TRUE,
          ask_prices |-> ZeroPadded(TopLevels(sorted(DOMAIN b.ask_ticks))),
          ask_volumes |-> ZeroPadded(TickVolumes(b.ask_ticks,
                                                 TopLevels(sorted(DOMAIN b.ask_ticks)))),
          bid_prices |-> ZeroPadded(TopLevels(sorted_reverse(DOMAIN b.bid_ticks))),
          bid_volumes |-> ZeroPadded(TickVolumes(b.bid_ticks,
                                                 TopLevels(sorted_reverse(DOMAIN b.bid_ticks)))),
          book |-> [b EXCEPT !.ask_ticks = <<>>, !.bid_ticks = <<>>]]
    ELSE [result |-> FALSE, book |-> b]

\* the TRADE_TICKS message written to the information channel
TradeTicks(i, sequence, t) ==
    [to |-> "information", typ |-> "TRADE_TICKS", instrument |-> i, sequence |-> sequence,
     ask_prices |-> t.ask_prices, ask_volumes |-> t.ask_volumes,
     bid_prices |-> t.bid_prices, bid_volumes |-> t.bid_volumes]

\* InformationPublisher.__send_trade_ticks, a callback of the event loop
send_trade_ticks(w, i) ==
    LET t == trade_ticks(w.book[i])
        w1 == [w EXCEPT !.pub.send_ticks_handles[i] = "None",
                        !.pub.scheduled[i] = @ - 1]
    IN  IF t.result
        THEN [w1 EXCEPT !.book[i] = t.book,
                        !.pub.trade_ticks_sequences[i] = @ + 1,
                        !.pub.unreported[i] = 0,
                        !.out = Append(@, TradeTicks(i, w.pub.trade_ticks_sequences[i] + 1, t))]
        ELSE w1

\* ------------------------------------------------------------------ inputs
Prices == {100, 200}
Sides == {SELL, BUY}
Lifespans == {FILL_AND_KILL, GOOD_FOR_DAY}

\* the length a client gives a message of each type
MessageSize(typ) ==
    CASE typ = "AMEND_ORDER" -> AMEND_MESSAGE_SIZE
      [] typ = "CANCEL_ORDER" -> CANCEL_MESSAGE_SIZE
      [] typ = "HEDGE_ORDER" -> HEDGE_MESSAGE_SIZE
      [] typ = "INSERT_ORDER" -> INSERT_MESSAGE_SIZE
      [] OTHER -> LOGIN_MESSAGE_SIZE

Msg(typ, coid, side, price, volume, lifespan) ==
    [typ |-> typ, coid |-> coid, side |-> side, price |-> price, volume |-> volume,
     lifespan |-> lifespan, length |-> MessageSize(typ), name |-> "", secret |-> ""]

\* the LOGIN message of a client
LoginMsg(name, secret) ==
    [Msg("LOGIN", 0, BUY, 0, 0, GOOD_FOR_DAY) EXCEPT !.name = name, !.secret = secret]

\* the requests of a client: <<side, price, volume, lifespan>>
Requests(sides, prices, volumes, lifespans) == sides \X prices \X volumes \X lifespans

\* the market data files replayed: each ends with the None sentinel
FutureQuotes ==
    << MarketEvent(0, FUTURE, "INSERT", 1, BUY, 12, 100, GOOD_FOR_DAY),
       MarketEvent(0, FUTURE, "INSERT", 2, SELL, 12, 200, GOOD_FOR_DAY) >>

\* ------------------------------------------------------------------- Init
Construction(file, limits) ==
    [cfg |-> limits, book |-> [i \in Instruments |-> OrderBook], ord |-> <<>>,
     comp |-> [n \in Names |-> Competitor], conn |-> [n \in Names |-> ExecutionConnection],
     mr |-> MarketEventsReader(file),
     ctl |-> [done |-> FALSE, market_timer |-> TRUE, loop_stopped |-> FALSE,
              competitors |-> <<>>,
              refs |-> [x \in Writers |-> TRUE], writers |-> [x \in Writers |-> Writer],
              tick_timer |-> [handle |-> "None", tick_number |-> 0, shutdowns |-> 0,
                              reasons |-> {}]],
     pub |-> InformationPublisher,
     out |-> <<>>, rows |-> <<>>, cbs |-> <<>>, exc |-> FALSE, time |-> 0]

\* the Order objects still referenced: queued in a level, live at a competitor, or known
\* to the market events reader; the others are garbage
Referenced(w) ==
    UNION {UNION {{w.book[i].levels[p][j] : j \in 1..Len(w.book[i].levels[p])} :
                     p \in DOMAIN w.book[i].levels} : i \in Instruments}
    \cup UNION {{<<n, c>> : c \in w.comp[n].orders} : n \in Names}
    \cup {w.mr.future_orders[k] : k \in DOMAIN w.mr.future_orders}
    \cup {w.mr.etf_orders[k] : k \in DOMAIN w.mr.etf_orders}

\* the world after a handler becomes the next state
Commit(w, now, op, n, coid) ==
    /\ config' = w.cfg
    /\ book' = w.book
    /\ ord' = [oid \in DOMAIN w.ord \cap Referenced(w) |-> w.ord[oid]]
    /\ comp' = w.comp
    /\ conn' = w.conn
    /\ mr' = w.mr
    /\ ctl' = w.ctl
    /\ pub' = w.pub
    /\ out' = w.out
    /\ rows' = w.rows
    /\ cbs' = w.cbs
    /\ exc' = w.exc
    /\ clock' = now
    /\ last' = [op |-> op, n |-> n, coid |-> coid]

InitAt(w, now, open) ==
    /\ config = w.cfg
    /\ book = w.book
    /\ ord = [oid \in DOMAIN w.ord \cap Referenced(w) |-> w.ord[oid]]
    /\ comp = w.comp
    /\ conn = w.conn
    /\ mr = w.mr
    /\ ctl = w.ctl
    /\ pub = w.pub
    /\ out = <<>>
    /\ rows = <<>>
    /\ cbs = <<>>
    /\ exc = FALSE
    /\ clock = now
    /\ started = open
    /\ last = [op |-> "init", n |-> "", coid |-> 0]

\* Timer.advance(): the virtual time, 0 until the market opens
Now == IF started THEN clock ELSE 0

\* the ids a client sends: its next fresh id (up to k), or one it has already used
NextCoid(n) == IF comp[n].last_client_order_id < 1 THEN 1 ELSE comp[n].last_client_order_id + 1
FreshCoids(n, k) == {c \in 1..k : c = NextCoid(n)}
UsedCoids(n) == 1..comp[n].last_client_order_id

\* ---------------------------------------------------------------- actions
\* a client connects: connection_made
Connect(n) ==
    /\ conn[n].transport = "none"
    /\ Commit([World EXCEPT !.conn[n].transport = "open"], clock, "connect", n, 0)
    /\ UNCHANGED started

\* Controller.start: the market opens, the first market tick runs
MarketOpen ==
    /\ ~started
    /\ started' = TRUE
    /\ Commit(on_timer_tick(World, 1), 1, "open", "", 0)

\* virtual time passes
TimePasses ==
    /\ started
    /\ clock < MaxTime
    /\ Commit(World, clock + 1, "time", "", 0)
    /\ UNCHANGED started

\* A tick that finds no event due changes nothing: the ticks modelled are the others.
MarketTick ==
    /\ started
    /\ ctl.market_timer
    /\ mr.next_event.operation # "None" /\ mr.next_event.time < Now
    /\ Commit(on_timer_tick(World, Now), Now, "market_tick", "", 0)
    /\ UNCHANGED started

Receivable(n) == conn[n].transport = "open" /\ ~conn[n].closing

\* the names and the secrets a LOGIN message can carry: "Z" is not in the roster, and
\* "gamma" is the secret of nobody
LoginNames == Names \cup {"Z"}
Secrets == {"alpha", "beta", "gamma"}

\* a LOGIN message from client n, the first of the connection or a later one.  The client
\* gives its own name or one that login_competitor refuses: a connection that becomes
\* the competitor of another name is outside the model.
Logins(n) ==
    {l \in LoginNames \X Secrets : l[1] = n \/ Refused(World, l[1], l[2])}

Login(n) ==
    /\ Receivable(n)
    /\ \E l \in Logins(n) :
          Commit(data_received(World, n, Now, <<LoginMsg(l[1], l[2])>>), Now, "login", n, 0)
    /\ UNCHANGED started

\* the messages no branch of on_message takes: a type a client never sends, and a
\* message whose length is not the length of its type
Malformations ==
    { Msg("ORDER_STATUS", 1, BUY, 0, 0, GOOD_FOR_DAY),
      [Msg("INSERT_ORDER", 1, BUY, 100, 1, GOOD_FOR_DAY) EXCEPT !.length = INSERT_MESSAGE_SIZE - 1],
      [Msg("CANCEL_ORDER", 1, BUY, 0, 0, GOOD_FOR_DAY) EXCEPT !.length = AMEND_MESSAGE_SIZE],
      [LoginMsg("A", "alpha") EXCEPT !.length = LOGIN_MESSAGE_SIZE - 1] }

Malformed(n) ==
    /\ Receivable(n)
    /\ \E msg \in Malformations :
          Commit(data_received(World, n, Now, <<msg>>), Now, "malformed", n, msg.coid)
    /\ UNCHANGED started

\* an INSERT_ORDER message from client n: one of the requests, with its next id (up to k)
Insert(n, requests, k) ==
    /\ Receivable(n)
    /\ \E coid \in FreshCoids(n, k), r \in requests :
          Commit(data_received(World, n, Now,
                               <<Msg("INSERT_ORDER", coid, r[1], r[2], r[3], r[4])>>),
                 Now, "insert", n, coid)
    /\ UNCHANGED started

\* an INSERT_ORDER message that repeats an id
Reinsert(n) ==
    /\ Receivable(n)
    /\ \E coid \in UsedCoids(n) :
          Commit(data_received(World, n, Now,
                               <<Msg("INSERT_ORDER", coid, BUY, 100, 1, GOOD_FOR_DAY)>>),
                 Now, "insert", n, coid)
    /\ UNCHANGED started

Amend(n, volumes) ==
    /\ Receivable(n)
    /\ \E coid \in UsedCoids(n) \cup {NextCoid(n)}, volume \in volumes :
          Commit(data_received(World, n, Now,
                               <<Msg("AMEND_ORDER", coid, BUY, 0, volume, GOOD_FOR_DAY)>>),
                 Now, "amend", n, coid)
    /\ UNCHANGED started

Cancel(n) ==
    /\ Receivable(n)
    /\ \E coid \in UsedCoids(n) \cup {NextCoid(n)} :
          Commit(data_received(World, n, Now,
                               <<Msg("CANCEL_ORDER", coid, BUY, 0, 0, GOOD_FOR_DAY)>>),
                 Now, "cancel", n, coid)
    /\ UNCHANGED started

Hedge(n, requests, k) ==
    /\ Receivable(n)
    /\ \E coid \in FreshCoids(n, k), r \in requests :
          Commit(data_received(World, n, Now,
                               <<Msg("HEDGE_ORDER", coid, r[1], r[2], r[3], GOOD_FOR_DAY)>>),
                 Now, "hedge", n, coid)
    /\ UNCHANGED started

\* a HEDGE_ORDER message that repeats an id
Rehedge(n) ==
    /\ Receivable(n)
    /\ \E coid \in UsedCoids(n) :
          Commit(data_received(World, n, Now,
                               <<Msg("HEDGE_ORDER", coid, BUY, 100, 1, GOOD_FOR_DAY)>>),
                 Now, "hedge", n, coid)
    /\ UNCHANGED started

\* two messages that arrive in one read: an INSERT_ORDER and, behind it, a HEDGE_ORDER
Pipelined(n, requests, k) ==
    /\ Receivable(n)
    /\ \E coid \in FreshCoids(n, k), r \in requests :
          Commit(data_received(World, n, Now,
                               <<Msg("INSERT_ORDER", coid, r[1], r[2], r[3], r[4]),
                                 Msg("HEDGE_ORDER", coid + 1, SELL, 100, 1, GOOD_FOR_DAY)>>),
                 Now, "pipelined", n, coid)
    /\ UNCHANGED started

\* the peer closes its socket: asyncio closes the transport and schedules connection_lost
PeerClose(n) ==
    /\ conn[n].transport = "open"
    /\ Commit([World EXCEPT !.conn[n].transport = "closing"], clock, "peer_close", n, 0)
    /\ UNCHANGED started

ConnectionLost(n) ==
    /\ conn[n].transport = "closing"
    /\ Commit(connection_lost(World, n, Now), Now, "connection_lost", n, 0)
    /\ UNCHANGED started

\* the event loop runs a scheduled __send_trade_ticks
SendTradeTicks(i) ==
    /\ pub.scheduled[i] > 0
    /\ Commit(send_trade_ticks(World, i), clock, "send_trade_ticks", i, 0)
    /\ UNCHANGED started

\* the timer of the unhedged lots fires
UnhedgedExpiry(n) ==
    /\ comp[n].unhedged_etf_lots.timer_handle = "pending"
    /\ Commit(on_unhedged_lots_expiry(World, n, Now), Now, "expiry", n, 0)
    /\ UNCHANGED started

\* call_later(UNHEDGED_LOTS_TIME_LIMIT, callback) counts seconds of the event loop, and
\* Timer.advance multiplies the seconds of the loop by the "Speed" of the configuration:
\* the timer is due once the virtual clock is UNHEDGED_LOTS_TIME_LIMIT * Speed past the
\* time it was armed at
Deadline(n) == comp[n].unhedged_etf_lots.armed + UNHEDGED_LOTS_TIME_LIMIT * config.Speed

\* the event loop runs the callback of a timer once it is due
UnhedgedExpiryDue(n) ==
    /\ Now >= Deadline(n)
    /\ UnhedgedExpiry(n)

\* virtual time passes up to the next moment a pending timer is due
Elapse(step, horizon) ==
    /\ started
    /\ clock + step <= horizon
    /\ \A n \in Names : comp[n].unhedged_etf_lots.timer_handle = "pending"
                         => clock + step <= Deadline(n)
    /\ Commit(World, clock + step, "time", "", 0)
    /\ UNCHANGED started

\* ------------------------------------------------- the match at the ETF book
\* the session once both clients have logged in and the market has opened
Session(file, limits) ==
    LET w0 == Construction(file, limits)
        w1 == [w0 EXCEPT !.conn = [n \in Names |-> [@[n] EXCEPT !.transport = "open"]]]
        w2 == data_received(w1, "A", 0, <<LoginMsg("A", Traders["A"])>>)
        w3 == data_received(w2, "B", 0, <<LoginMsg("B", Traders["B"])>>)
    IN  on_timer_tick(w3, 1)

BookScripts ==
    { FutureQuotes \o
        << MarketEvent(0, ETF, "INSERT", 3, SELL, 2, 200, GOOD_FOR_DAY),
           MarketEvent(0, ETF, "INSERT", 4, BUY, 1, 100, GOOD_FOR_DAY),
           MarketEvent(1, ETF, "AMEND", 3, SELL, -1, 0, GOOD_FOR_DAY),
           MarketEvent(1, ETF, "CANCEL", 4, BUY, 0, 0, GOOD_FOR_DAY),
           MarketEvent(1, ETF, "INSERT", 5, BUY, 2, 200, GOOD_FOR_DAY),
           MarketEvent(1, FUTURE, "INSERT", 6, SELL, 1, 200, GOOD_FOR_DAY),
           MarketEvent(1, FUTURE, "INSERT", 7, BUY, 13, 200, GOOD_FOR_DAY),
           NoEvent >>,
      << MarketEvent(0, ETF, "INSERT", 1, SELL, 1, 100, GOOD_FOR_DAY),
         MarketEvent(1, ETF, "INSERT", 2, SELL, 2, 100, FILL_AND_KILL),
         NoEvent >> }

BookRequests == Requests(Sides, Prices, {1, 2}, Lifespans)
CounterRequests == {<<SELL, 200, 1, GOOD_FOR_DAY>>, <<BUY, 200, 2, FILL_AND_KILL>>}

BookLimits == Limits(11, 2, 12, 3, 3)

Init == \E file \in BookScripts : InitAt(Session(file, BookLimits), 1, TRUE)

Next ==
    \/ TimePasses
    \/ MarketTick
    \/ Insert("A", BookRequests, BookOrders)
    \/ Reinsert("A")
    \/ Amend("A", {0, 1, 2})
    \/ Cancel("A")
    \/ Insert("B", CounterRequests, 1)
    \/ \E n \in Names : ConnectionLost(n)

Spec == Init /\ [][Next]_vars

\* ------------------------------------------- the limits on orders and ids
\* one client with tight limits on its orders, before a quiet market
LimitScript ==
    FutureQuotes \o
    << MarketEvent(0, ETF, "INSERT", 3, SELL, 1, 200, GOOD_FOR_DAY), NoEvent >>

LimitRequests == Requests({BUY}, {100}, {0, 1, 2}, {GOOD_FOR_DAY})
                 \cup Requests({SELL}, {100, 200}, {1}, {GOOD_FOR_DAY})
LimitHedges == {<<BUY, 200, 1, GOOD_FOR_DAY>>, <<SELL, 150, 1, GOOD_FOR_DAY>>}

LimitLimits == Limits(11, 2, 3, 1, 2)

LimitInit == InitAt(Session(LimitScript, LimitLimits), 1, TRUE)

LimitNext ==
    \/ TimePasses
    \/ Insert("A", LimitRequests, LimitOrders)
    \/ Reinsert("A")
    \/ Amend("A", {1})
    \/ Cancel("A")
    \/ Hedge("A", LimitHedges, LimitOrders)
    \/ Rehedge("A")
    \/ ConnectionLost("A")

LimitSpec == LimitInit /\ [][LimitNext]_vars

\* ------------------------------------------------------ the hard breaches
\* positions at the limit: the ETF book is two-sided in the first file and has asks
\* only in the second
RiskScripts ==
    { FutureQuotes \o
        << MarketEvent(0, ETF, "INSERT", 3, SELL, 12, 200, GOOD_FOR_DAY),
           MarketEvent(0, ETF, "INSERT", 4, BUY, 12, 100, GOOD_FOR_DAY), NoEvent >>,
      FutureQuotes \o
        << MarketEvent(0, ETF, "INSERT", 3, SELL, 12, 200, GOOD_FOR_DAY), NoEvent >> }

RiskRequests == Requests({BUY}, {200}, {11, 12}, Lifespans)
                \cup Requests({SELL}, {100}, {1}, {FILL_AND_KILL})
RiskHedges == Requests(Sides, {150}, {1}, {GOOD_FOR_DAY})
              \cup {<<BUY, 200, 12, GOOD_FOR_DAY>>, <<SELL, 100, 11, GOOD_FOR_DAY>>}
RiskCounter == {<<SELL, 200, 12, GOOD_FOR_DAY>>}

RiskLimits == Limits(11, 2, 12, 1, 2)

RiskInit == \E file \in RiskScripts : InitAt(Session(file, RiskLimits), 1, TRUE)

RiskNext ==
    \/ TimePasses
    \/ Insert("A", RiskRequests, RiskOrders)
    \/ Hedge("A", RiskHedges, RiskOrders)
    \/ Insert("B", RiskCounter, 1)
    \/ Pipelined("A", RiskRequests, RiskOrders - 1)
    \/ \E n \in Names : UnhedgedExpiry(n)
    \/ \E n \in Names : ConnectionLost(n)

RiskSpec == RiskInit /\ [][RiskNext]_vars

\* ------------------------------------------------------------ the hedges
\* a Future book of two levels a side that thins out after the open
HedgeScript ==
    << MarketEvent(0, FUTURE, "INSERT", 1, SELL, 10, 10000, GOOD_FOR_DAY),
       MarketEvent(0, FUTURE, "INSERT", 2, SELL, 5, 10100, GOOD_FOR_DAY),
       MarketEvent(0, FUTURE, "INSERT", 3, BUY, 10, 9900, GOOD_FOR_DAY),
       MarketEvent(0, FUTURE, "INSERT", 4, BUY, 5, 9800, GOOD_FOR_DAY),
       MarketEvent(0, ETF, "INSERT", 5, SELL, 12, 10100, GOOD_FOR_DAY),
       MarketEvent(0, ETF, "INSERT", 6, BUY, 12, 9900, GOOD_FOR_DAY),
       MarketEvent(1, FUTURE, "AMEND", 1, SELL, -4, 0, GOOD_FOR_DAY),
       MarketEvent(1, FUTURE, "CANCEL", 3, BUY, 0, 0, GOOD_FOR_DAY),
       NoEvent >>

HedgeOrders == 2
HedgePrices == {9800, 9900, 10000, 10100, 10200}
HedgeVolumes == {1, 12, 16}
HedgeRequests == Requests(Sides, HedgePrices, HedgeVolumes, {GOOD_FOR_DAY})
HedgeLimits == Limits(20, 2, 12, 1, 3)

HedgeInit == InitAt(Session(HedgeScript, HedgeLimits), 1, TRUE)

HedgeNext ==
    \/ TimePasses
    \/ MarketTick
    \/ Hedge("A", HedgeRequests, HedgeOrders)
    \/ ConnectionLost("A")

HedgeSpec == HedgeInit /\ [][HedgeNext]_vars

\* ------------------------------------------------------ the unhedged lots
\* the "Speed" of the "Engine" section: the virtual clock runs at Speed times the loop's
Speeds == {1, 2}
\* the virtual clock moves in steps of half the time limit, from 1 to the horizon
TimerStep == 30
TimerHorizon == 151
TimerOrders == 3

TimerRequests == {<<BUY, 200, 11, GOOD_FOR_DAY>>, <<SELL, 100, 1, FILL_AND_KILL>>}
TimerHedges == {<<SELL, 100, 1, GOOD_FOR_DAY>>, <<BUY, 200, 1, GOOD_FOR_DAY>>}

TimerInit ==
    \E file \in RiskScripts, speed \in Speeds :
        InitAt(Session(file, RiskLimits @@ [Speed |-> speed]), 1, TRUE)

TimerNext ==
    \/ Elapse(TimerStep, TimerHorizon)
    \/ Insert("A", TimerRequests, TimerOrders)
    \/ Hedge("A", TimerHedges, TimerOrders)
    \/ \E n \in Names : UnhedgedExpiryDue(n)
    \/ \E n \in Names : ConnectionLost(n)

TimerSpec == TimerInit /\ [][TimerNext]_vars

\* -------------------------------------------------------- the trade ticks
\* six ask levels and one bid level in the ETF book: a client can lift more levels than
\* a TRADE_TICKS message has room for, and the trades of two clients can fall in one turn
\* of the event loop
TickScript ==
    FutureQuotes \o
    << MarketEvent(0, ETF, "INSERT", 3, BUY, 1, 100, GOOD_FOR_DAY),
       MarketEvent(0, ETF, "INSERT", 4, SELL, 1, 200, GOOD_FOR_DAY),
       MarketEvent(0, ETF, "INSERT", 5, SELL, 1, 300, GOOD_FOR_DAY),
       MarketEvent(0, ETF, "INSERT", 6, SELL, 1, 400, GOOD_FOR_DAY),
       MarketEvent(0, ETF, "INSERT", 7, SELL, 1, 500, GOOD_FOR_DAY),
       MarketEvent(0, ETF, "INSERT", 8, SELL, 1, 600, GOOD_FOR_DAY),
       MarketEvent(0, ETF, "INSERT", 9, SELL, 2, 700, GOOD_FOR_DAY), NoEvent >>

TickOrders == 2
TickRequests == Requests({BUY}, {700}, {1, 6}, {FILL_AND_KILL})
                \cup Requests({SELL}, {100}, {1}, {FILL_AND_KILL})
TickCounter == Requests({BUY}, {200, 700}, {1}, {FILL_AND_KILL})

TickLimits == Limits(20, 2, 12, 1, 3)

TickInit == InitAt(Session(TickScript, TickLimits), 1, TRUE)

TickNext ==
    \/ TimePasses
    \/ Insert("A", TickRequests, TickOrders)
    \/ Insert("B", TickCounter, 1)
    \/ \E i \in Instruments : SendTradeTicks(i)

TickSpec == TickInit /\ [][TickNext]_vars

\* ------------------------------------------------------------ the logins
\* the connections are made and log in, or fail to, before and after the market opens
LoginScript ==
    FutureQuotes \o
    << MarketEvent(0, ETF, "INSERT", 3, SELL, 2, 200, GOOD_FOR_DAY),
       MarketEvent(1, ETF, "INSERT", 4, BUY, 1, 100, GOOD_FOR_DAY), NoEvent >>

LoginRequests == Requests({BUY}, {200}, {1}, {GOOD_FOR_DAY})

LoginLimits == Limits(11, 2, 12, 1, 2)

LoginInit == InitAt(Construction(LoginScript, LoginLimits), 0, FALSE)

LoginNext ==
    \/ MarketOpen
    \/ TimePasses
    \/ MarketTick
    \/ \E n \in Names : Connect(n)
    \/ \E n \in Names : Login(n)
    \/ \E n \in Names : Malformed(n)
    \/ \E n \in Names : Insert(n, LoginRequests, 1)
    \/ \E n \in Names : ConnectionLost(n)

LoginSpec == LoginInit /\ [][LoginNext]_vars

\* ----------------------------------------------------- the end of the match
\* the ticks of the tick timer before the market data ends
MaxTicks == 2

ShutdownScript ==
    << MarketEvent(0, ETF, "INSERT", 3, SELL, 2, 200, GOOD_FOR_DAY),
       MarketEvent(1, ETF, "AMEND", 3, SELL, -1, 0, GOOD_FOR_DAY), NoEvent >>

ShutdownLimits == Limits(11, 2, 12, 1, 2)

ShutdownInit == InitAt(Construction(ShutdownScript, ShutdownLimits), 0, FALSE)

\* a client sends its LOGIN message
LogsIn(n) ==
    /\ Receivable(n)
    /\ ~conn[n].competitor
    /\ Commit(data_received(World, n, Now, <<LoginMsg(n, Traders[n])>>), Now, "login", n, 0)
    /\ UNCHANGED started

\* Controller.start once the delay is over: market_timer.start() and tick_timer.start(),
\* each of which runs its first tick
MatchOpen ==
    /\ ~started
    /\ started' = TRUE
    /\ Commit(on_tick_timer_tick(on_timer_tick(World, 1)), 1, "open", "", 0)

\* the world after a handler of the timer or of a writer becomes the next state: the
\* books, the orders, the competitors and the reader are none of their business
CommitLoop(w, op, x) ==
    /\ ctl' = w.ctl
    /\ conn' = w.conn
    /\ out' = w.out
    /\ rows' = w.rows
    /\ cbs' = w.cbs
    /\ exc' = w.exc
    /\ last' = [op |-> op, n |-> x, coid |-> 0]
    /\ UNCHANGED <<book, ord, comp, mr, pub, config, clock, started>>

\* the event loop runs the tick the tick timer has scheduled
Tick ==
    /\ ctl.tick_timer.handle = "scheduled"
    /\ ctl.tick_timer.tick_number < MaxTicks \/ ctl.done
    /\ \E w \in {on_tick_timer_tick(World)} : CommitLoop(w, "tick", "")

\* the event loop runs an on_writer_done a writer thread has posted
WriterDone(x) ==
    /\ ctl.writers[x].callbacks > 0
    /\ \E w \in {on_writer_done(World, x)} : CommitLoop(w, "on_writer_done", x)

\* a writer thread takes the next item of its queue
WriterThread(x) ==
    /\ ctl.writers[x].thread = "running"
    /\ ctl.writers[x].queue # <<>>
    /\ \E w \in {writer(World, x)} : CommitLoop(w, "writer", x)

\* the event loop runs its callbacks until it is stopped; the threads run on
ShutdownNext ==
    \/ ~ctl.loop_stopped /\ MatchOpen
    \/ ~ctl.loop_stopped /\ TimePasses
    \/ ~ctl.loop_stopped /\ MarketTick
    \/ ~ctl.loop_stopped /\ Tick
    \/ \E n \in Names : ~ctl.loop_stopped /\ Connect(n)
    \/ \E n \in Names : ~ctl.loop_stopped /\ LogsIn(n)
    \/ \E n \in Names : ~ctl.loop_stopped /\ PeerClose(n)
    \/ \E n \in Names : ~ctl.loop_stopped /\ ConnectionLost(n)
    \/ \E x \in Writers : ~ctl.loop_stopped /\ WriterDone(x)
    \/ \E x \in Writers : WriterThread(x)

ShutdownSpec == ShutdownInit /\ [][ShutdownNext]_vars

\* the same with one client
FairNext ==
    \/ ~ctl.loop_stopped /\ MatchOpen
    \/ ~ctl.loop_stopped /\ TimePasses
    \/ ~ctl.loop_stopped /\ MarketTick
    \/ ~ctl.loop_stopped /\ Tick
    \/ ~ctl.loop_stopped /\ Connect("A")
    \/ ~ctl.loop_stopped /\ LogsIn("A")
    \/ ~ctl.loop_stopped /\ PeerClose("A")
    \/ ~ctl.loop_stopped /\ ConnectionLost("A")
    \/ \E x \in Writers : ~ctl.loop_stopped /\ WriterDone(x)
    \/ \E x \in Writers : WriterThread(x)

\* ticks keep firing, the loop runs what is posted to it, the threads are scheduled
ShutdownFair ==
    /\ ShutdownInit /\ [][FairNext]_vars
    /\ WF_vars(~ctl.loop_stopped /\ Tick)
    /\ \A x \in Writers : WF_vars(~ctl.loop_stopped /\ WriterDone(x))
    /\ \A x \in Writers : WF_vars(WriterThread(x))

\* ------------------------------------------------------------ properties
\* the callbacks of the last handler that report a fill; a fill of a queued order is
\* a fill of a resting (passive) order, the others are fills of the incoming order
Filled(k) == cbs[k].cb = "filled"
PassiveFill(k) == Filled(k) /\ cbs[k].queued
AggressorFill(k) == Filled(k) /\ ~cbs[k].queued

RECURSIVE SumVolume(_, _)
SumVolume(log, ks) ==
    IF ks = {} THEN 0
    ELSE LET k == CHOOSE x \in ks : TRUE IN log[k].volume + SumVolume(log, ks \ {k})

\* C1 (1/3): a resting order is filled only when no resting order of its side has volume
\* left at a better price, or at its price and an earlier place in the queue
PassiveFillsAtHead ==
    \A k \in DOMAIN cbs : PassiveFill(k) => cbs[k].better = {} /\ cbs[k].earlier = {}

\* C1 (2/3): the orders of a level keep their relative order, and an order that joins a
\* level joins behind the orders already there
QueueOrderKept ==
    \A i \in Instruments : \A p \in DOMAIN book[i].levels \cap DOMAIN book'[i].levels :
        LET old == book[i].levels[p]
            new == book'[i].levels[p]
        IN  \A a, b \in 1..Len(new) :
                a < b /\ (\E y \in 1..Len(old) : old[y] = new[b])
                => \E x, y \in 1..Len(old) : x < y /\ old[x] = new[a] /\ old[y] = new[b]

\* C1 (3/3): an amended order that has volume left stays in the queue of its level, and
\* no order of its price is ahead of it that was not ahead of it before
AmendKeepsPlace ==
    \A k \in DOMAIN cbs' :
        cbs'[k].cb = "amended" /\ cbs'[k].remaining_volume > 0 /\ cbs'[k].oid \in DOMAIN ord
        => /\ cbs'[k].queued
           /\ cbs'[k].earlier \subseteq Earlier(World, cbs'[k].oid)

\* C1: price-time priority. In either book a resting order is filled only when no other
\* resting order of its side has remaining volume at a strictly better price or at the
\* same price from an earlier placement, and an amend that reduces an order's volume
\* does not change its place in the queue of its level.
C1_PriceTimePriority == []PassiveFillsAtHead /\ [][QueueOrderKept /\ AmendKeepsPlace]_vars

\* two resting orders of different owners at one price are filled by one incoming order
C1_Witness ==
    \E k, l \in DOMAIN cbs :
        /\ k < l /\ PassiveFill(k) /\ PassiveFill(l)
        /\ cbs[k].order_price = cbs[l].order_price
        /\ cbs[k].listener # cbs[l].listener

\* C2: after every completed insert, amend or cancel, on the ETF and the Future book,
\* when both sides are populated the highest bid is strictly below the lowest ask.
C2_BookNotCrossed ==
    \A i \in Instruments :
        Len(book[i].bid_prices) > 0 /\ Len(book[i].ask_prices) > 0
        => Last(book[i].bid_prices) < -Last(book[i].ask_prices)

\* an incoming order has traded and left a two-sided ETF book behind
C2_Witness ==
    /\ \E k \in DOMAIN cbs : AggressorFill(k) /\ cbs[k].instrument = ETF
    /\ Len(book[ETF].bid_prices) > 0 /\ Len(book[ETF].ask_prices) > 0
    /\ ~exc

\* the resting fills that the fill of the incoming order at position a sums up
Group(a) ==
    {k \in 1..(a - 1) : PassiveFill(k) /\ \A j \in k..(a - 1) : PassiveFill(j)}

\* C3: when an inserted order crosses the book every trade executes at the price of the
\* resting order, for the smaller of the two remaining volumes, both orders lose exactly
\* the traded volume, and last_traded_price() is then the price of the last level traded.
C3_TradesAtMakerPrice ==
    /\ \A k \in DOMAIN cbs :
          PassiveFill(k) =>
             /\ cbs[k].price = cbs[k].order_price
             /\ \E a \in DOMAIN cbs : a > k /\ AggressorFill(a) /\ k \in Group(a)
    /\ \A a \in DOMAIN cbs :
          AggressorFill(a) =>
             /\ cbs[a].volume = SumVolume(cbs, Group(a))
             /\ \A k \in Group(a) :
                   /\ cbs[k].price = cbs[a].price
                   /\ cbs[k].side # cbs[a].side
                   /\ \/ cbs[k].remaining_volume = 0
                      \/ cbs[a].remaining_volume = 0 /\ k = a - 1
             /\ (\A b \in DOMAIN cbs : b > a => ~(Filled(b) /\ cbs[b].instrument = cbs[a].instrument))
                => book[cbs[a].instrument].last_traded_price = cbs[a].price

\* C4 (1/3): a fill-and-kill order rests in no level
NoFillAndKillQueued ==
    \A i \in Instruments : \A p \in DOMAIN book[i].levels :
        \A j \in 1..Len(book[i].levels[p]) :
            ord[book[i].levels[p][j]].lifespan # FILL_AND_KILL

\* the callbacks about order oid
About(log, oid) == {k \in DOMAIN log : log[k].oid = oid}

\* C4 (2/3): the listener of a fill-and-kill order hears of the whole volume: the fills
\* and, when volume is left, one cancel that carries the residual and ends at 0
ResidualCancelledOnce ==
    \A k \in DOMAIN cbs' :
        cbs'[k].lifespan = FILL_AND_KILL /\ cbs'[k].oid \notin DOMAIN ord /\ ~exc' =>
            LET mine == About(cbs', cbs'[k].oid)
                fills == {j \in mine : cbs'[j].cb = "filled"}
                cancels == {j \in mine : cbs'[j].cb = "cancelled"}
            IN  /\ mine = fills \cup cancels
                /\ Cardinality(cancels) <= 1
                /\ \A c \in cancels :
                      /\ \A j \in mine : j <= c
                      /\ cbs'[c].volume > 0
                      /\ cbs'[c].remaining_volume = 0
                /\ SumVolume(cbs', mine) = cbs'[k].order_volume
                /\ cancels = {} => \E j \in fills : cbs'[j].remaining_volume = 0
                /\ cbs'[k].oid \notin DOMAIN ord'

\* C4 (3/3): the residual leaves the side of the order as it was; with no trade at all
\* the whole book is as it was
ResidualNotPlaced ==
    \A c \in DOMAIN cbs' :
        (/\ cbs'[c].cb = "cancelled" /\ cbs'[c].lifespan = FILL_AND_KILL /\ ~exc'
         /\ cbs'[c].oid \notin DOMAIN ord
         /\ \A j \in DOMAIN cbs' : cbs'[j].oid = cbs'[c].oid \/ PassiveFill(j)')
        => LET i == cbs'[c].instrument
           IN  /\ cbs'[c].side = BUY => book'[i].bid_prices = book[i].bid_prices
               /\ cbs'[c].side = SELL => book'[i].ask_prices = book[i].ask_prices
               /\ DOMAIN cbs' = {c} => book'[i] = book[i]

\* C4: once insert has returned for a FILL_AND_KILL order, the order has remaining
\* volume 0 and is queued in no level, traded or not; volume left unfilled reaches the
\* listener as exactly one cancel with that residual (the full volume when nothing
\* traded), and the residual leaves the resting side of the book unchanged.
C4_FillAndKill ==
    []NoFillAndKillQueued /\ [][ResidualCancelledOnce /\ ResidualNotPlaced]_vars

\* a fill-and-kill order has traded in part and the rest was cancelled
C4_Witness ==
    \E k, c \in DOMAIN cbs :
        /\ ~exc /\ k < c /\ cbs[k].oid = cbs[c].oid /\ cbs[k].lifespan = FILL_AND_KILL
        /\ AggressorFill(k) /\ cbs[c].cb = "cancelled"

\* the live orders of a competitor
LiveOrders(n) == {<<n, c>> : c \in comp[n].orders}

Serving(n) == started /\ Receivable(n) /\ conn[n].competitor /\ comp[n].exec_connection

\* the answer is one ERROR to client n with the id of the request
IsError(w, n, coid) ==
    /\ ~w.exc
    /\ Len(w.out) = 1
    /\ w.out[1].typ = "ERROR" /\ w.out[1].to = n /\ w.out[1].coid = coid /\ ~w.out[1].late

\* the request was taken as an order: no ERROR, and the book has called back about it
Accepted(w, n, coid) ==
    /\ \A k \in DOMAIN w.out : w.out[k].typ # "ERROR"
    /\ \E k \in DOMAIN w.cbs : w.cbs[k].oid = <<n, coid>>

\* the order would be in cross with a live order of client n
CrossesOwn(n, side, price) ==
    \E x \in LiveOrders(n) :
        /\ ord[x].side # side
        /\ IF side = BUY THEN price >= ord[x].price ELSE price <= ord[x].price

InsertResult(n, coid, r) == on_insert_message(World, n, Now, coid, r[1], r[2], r[3], r[4])
HedgeResult(n, coid, r) == on_hedge_message(World, n, Now, coid, r[1], r[2], r[3])

InCrossText == "order rejected: in cross with an existing order"

\* C6: an insert that would cross a resting order of its own client is answered with
\* exactly one ERROR that carries its client order id, and nothing else happens: the ETF
\* book, the live orders, the own prices, the active volume and the account of the
\* client are as before, and the session stays open.
C6_SelfCrossRejected ==
    \A n \in Names : Serving(n) =>
        \A r \in BookRequests :
            LET coid == NextCoid(n)
                w == InsertResult(n, coid, r)
            IN  (\/ CrossesOwn(n, r[1], r[2])
                 \/ \E k \in DOMAIN w.out : w.out[k].text = InCrossText)
                => /\ IsError(w, n, coid)
                   /\ w.cbs = <<>>
                   /\ w.book = book
                   /\ w.comp[n].orders = comp[n].orders
                   /\ w.comp[n].buy_prices = comp[n].buy_prices
                   /\ w.comp[n].sell_prices = comp[n].sell_prices
                   /\ w.comp[n].active_volume = comp[n].active_volume
                   /\ w.comp[n].account = comp[n].account
                   /\ w.comp[n].status = comp[n].status
                   /\ w.conn = conn

\* a client has been told that its insert is in cross
C6_Witness ==
    /\ last.op = "insert" /\ ~exc
    /\ Len(out) = 1 /\ out[1].text = InCrossText /\ out[1].coid = last.coid
    /\ Receivable(last.n)

\* C7 (1/2): an insert or a hedge with an id that is not above the last id seen, and an
\* amend or a cancel with an id above it, is answered with an ERROR and changes nothing
StaleRequestsRejected ==
    \A n \in Names : Serving(n) =>
        /\ \A coid \in 0..comp[n].last_client_order_id :
              /\ \A r \in LimitRequests :
                    LET w == InsertResult(n, coid, r)
                    IN  IsError(w, n, coid) /\ w.comp = comp /\ w.book = book /\ w.ord = ord
              /\ \A r \in LimitHedges :
                    LET w == HedgeResult(n, coid, r)
                    IN  IsError(w, n, coid) /\ w.comp = comp /\ w.book = book /\ w.ord = ord
        /\ \A coid \in {comp[n].last_client_order_id + 1, comp[n].last_client_order_id + 2} :
              /\ LET w == on_amend_message(World, n, coid, 1)
                 IN  IsError(w, n, coid) /\ w.comp = comp /\ w.book = book /\ w.ord = ord
              /\ LET w == on_cancel_message(World, n, coid)
                 IN  IsError(w, n, coid) /\ w.comp = comp /\ w.book = book /\ w.ord = ord

\* C7 (2/2): the last id seen moves only upwards, to the id of an insert or a hedge
IdsIncrease ==
    \A n \in Names :
        comp'[n].last_client_order_id # comp[n].last_client_order_id
        => /\ comp'[n].last_client_order_id > comp[n].last_client_order_id
           /\ last'.op \in {"insert", "hedge"} /\ last'.n = n
           /\ last'.coid = comp'[n].last_client_order_id

\* C7: an insert or hedge whose client order id is not greater than the last id seen from
\* the competitor, and an amend or cancel whose id is greater, gets an ERROR and changes
\* nothing (last id seen, live orders, account, both books); the ids of the inserts and
\* hedges that pass the check are therefore strictly increasing per competitor.
C7_ClientOrderIds == []StaleRequestsRejected /\ [][IdsIncrease]_vars

\* a hedge that repeats an id has been answered with an ERROR
C7_Witness ==
    /\ last.op = "hedge" /\ ~exc
    /\ last.coid < comp[last.n].last_client_order_id
    /\ Len(out) = 1 /\ out[1].typ = "ERROR" /\ out[1].coid = last.coid

\* C8 (1/2): the live orders and the active volume stay within their limits
WithinOrderLimits ==
    \A n \in Names :
        /\ Cardinality(comp[n].orders) <= config.ActiveOrderCountLimit
        /\ comp[n].active_volume <= config.ActiveVolumeLimit

\* C8 (2/2): at the edges. An insert that the other checks let through is accepted with
\* volume 1 and when it brings the active volume exactly to the limit; an insert with
\* volume 0, or one that would take the active volume one above the limit, gets an ERROR.
LimitEdges ==
    \A n \in Names : Serving(n) =>
        \A r \in LimitRequests :
            LET coid == NextCoid(n)
                w == InsertResult(n, coid, r)
                volume == r[3]
                others == /\ Cardinality(comp[n].orders) < config.ActiveOrderCountLimit
                          /\ ~CrossesOwn(n, r[1], r[2])
            IN  /\ volume = 0 => IsError(w, n, coid) /\ w.comp[n].orders = comp[n].orders
                /\ comp[n].active_volume + volume = config.ActiveVolumeLimit + 1
                   => IsError(w, n, coid) /\ w.comp[n].orders = comp[n].orders
                /\ others /\ volume >= 1
                   /\ comp[n].active_volume + volume = config.ActiveVolumeLimit
                   => Accepted(w, n, coid)
                /\ others /\ volume = 1
                   /\ comp[n].active_volume + volume <= config.ActiveVolumeLimit
                   => Accepted(w, n, coid)

\* C8: after every request each competitor has at most ActiveOrderCountLimit live orders
\* and an active volume of at most ActiveVolumeLimit; an insert that brings the active
\* volume exactly to the limit is accepted, one that would exceed it by 1 is rejected
\* with an ERROR, an insert with volume 0 is rejected and one with volume 1 is accepted.
C8_OrderLimits == WithinOrderLimits /\ LimitEdges

\* an insert has brought a client to both of its limits
C8_Witness ==
    /\ last.op = "insert" /\ ~exc /\ out # <<>>
    /\ \A k \in DOMAIN out : out[k].typ # "ERROR"
    /\ comp[last.n].active_volume = config.ActiveVolumeLimit
    /\ Cardinality(comp[last.n].orders) = config.ActiveOrderCountLimit

Abs(x) == IF x < 0 THEN -x ELSE x

\* C9: once an ETF fill or a Future hedge has been handled, every competitor whose status
\* is OK has |etf_position| and |future_position| within the position limit: a
\* competitor with a position outside the limit has status BREACH.
C9_PositionsWithinLimit ==
    \A n \in Names :
        comp[n].status = "OK"
        => /\ Abs(comp[n].account.etf_position) <= config.PositionLimit
           /\ Abs(comp[n].account.future_position) <= config.PositionLimit

\* the 'Breach' rows and the ERRORs of a hard breach that the last handler produced
BreachRows(n) == {k \in DOMAIN rows' : rows'[k].team = n /\ rows'[k].operation = "Breach"}
BreachErrors(n) ==
    {k \in DOMAIN out' :
        /\ out'[k].to = n /\ out'[k].typ = "ERROR"
        /\ out'[k].text \in {"message frequency limit breached",
                             "ETF position limit breached",
                             "future position limit breached",
                             "held unhedged lots for longer than the time limit"}}

\* C10 (step): what a handler that breaches a competitor does, and that BREACH stays
HardBreach ==
    \A n \in Names :
        /\ comp[n].status = "BREACH" => comp'[n].status = "BREACH"
        /\ comp[n].status = "OK" /\ comp'[n].status = "BREACH" => BreachRows(n) # {}
        /\ BreachRows(n) # {} =>
              /\ comp'[n].status = "BREACH"
              /\ conn'[n].closing /\ conn'[n].transport # "open"
              /\ Cardinality(BreachErrors(n)) = Cardinality(BreachRows(n))
              /\ conn[n].transport = "open"
                 => \E k \in BreachErrors(n) :
                       ~out'[k].late /\ \A j \in BreachErrors(n) : k <= j
        /\ \A k \in BreachErrors(n) :
              out'[k].text = "ETF position limit breached"
              => /\ k > 2
                 /\ out'[k - 2].typ = "ORDER_FILLED" /\ out'[k - 2].to = n
                 /\ out'[k - 2].coid = out'[k].coid
                 /\ out'[k - 1].typ = "ORDER_STATUS" /\ out'[k - 1].to = n
                 /\ out'[k - 1].coid = out'[k].coid

\* C10: every hard breach (message frequency, ETF or Future position limit, expiry of the
\* unhedged lots) sets the status of the competitor to BREACH for the rest of the match,
\* sends an ERROR to the client, closes its execution channel and records a 'Breach' row
\* on the score board; the ERROR of a position limit breach follows the ORDER_FILLED and
\* the ORDER_STATUS of the fill that caused it.
C10_HardBreach == [][HardBreach]_vars

\* a fill has taken a competitor over the ETF position limit
C10_Witness ==
    /\ \E k \in DOMAIN rows : rows[k].operation = "Breach"
    /\ \E k \in DOMAIN out : out[k].text = "ETF position limit breached" /\ ~out[k].late

\* the texts of the ERRORs that hard_breach is called with
BreachTexts == {"message frequency limit breached", "ETF position limit breached",
                "future position limit breached",
                "held unhedged lots for longer than the time limit"}

\* C11 (1/2): within a handler, nothing is written to a competitor after the ERROR of
\* its hard breach
NothingAfterBreachError ==
    \A k \in DOMAIN out :
        out[k].typ = "ERROR" /\ out[k].text \in BreachTexts
        => \A j \in DOMAIN out : j > k => out[j].to # out[k].to

\* C11 (2/2): a handler that starts with a breached competitor writes nothing to it
NothingToBreached ==
    \A n \in Names : comp[n].status = "BREACH" => \A k \in DOMAIN out' : out'[k].to # n

\* C11: the ERROR of a hard breach is the last message written to the execution channel
\* of the competitor: no ORDER_FILLED, ORDER_STATUS, HEDGE_FILLED or ERROR follows it,
\* in the handler of the breach or in a later one.
C11_ErrorIsFinal == []NothingAfterBreachError /\ [][NothingToBreached]_vars

\* the messages a client may have sent behind the one that breaches
Followers(n) ==
    {Msg("HEDGE_ORDER", NextCoid(n) + 1, SELL, 100, 1, GOOD_FOR_DAY),
     Msg("INSERT_ORDER", NextCoid(n) + 1, SELL, 200, 1, GOOD_FOR_DAY),
     Msg("CANCEL_ORDER", NextCoid(n), BUY, 0, 0, GOOD_FOR_DAY),
     Msg("AMEND_ORDER", NextCoid(n), BUY, 0, 1, GOOD_FOR_DAY)}

\* the messages of the risk scenario that may breach
Breachers(n) ==
    {Msg("INSERT_ORDER", NextCoid(n), r[1], r[2], r[3], r[4]) : r \in RiskRequests}
    \cup {Msg("HEDGE_ORDER", NextCoid(n), r[1], r[2], r[3], GOOD_FOR_DAY) : r \in RiskHedges}

\* C12 (1/2): a breached competitor's connection is closed to further reads
BreachedIsClosed ==
    \A n \in Names : comp[n].status = "BREACH" => conn[n].closing /\ ~Receivable(n)

\* C12 (2/2): a read whose first message breaches the competitor has the effect of that
\* message alone, whatever message follows it in the read
RestOfReadIgnored ==
    \A n \in Names :
        Receivable(n) /\ conn[n].competitor
        => \A m \in Breachers(n), f \in Followers(n) :
              LET w1 == data_received(World, n, Now, <<m>>)
              IN  w1.comp[n].status = "BREACH"
                  => data_received(World, n, Now, <<m, f>>) = w1

\* C12: after a hard breach no insert, amend, cancel or hedge request of the competitor is
\* processed: its connection takes no further read, and the messages that arrived in the
\* same read as the breaching one change no book and no account.
C12_BreachIrrecoverable == BreachedIsClosed /\ RestOfReadIgnored

\* a read of two messages has breached the competitor with its first message: the hedge
\* behind it was not applied
C12_Witness ==
    /\ last.op = "pipelined" /\ comp[last.n].status = "BREACH"
    /\ comp[last.n].last_client_order_id = last.coid
    /\ comp[last.n].account.future_position = 0

\* the position deltas of a fill or a hedge
Deltas == (-(2 * MAX_UNHEDGED_LOTS + 3) .. (2 * MAX_UNHEDGED_LOTS + 3)) \ {0}

Unhedged(u) ==
    u.relative_position > MAX_UNHEDGED_LOTS \/ u.relative_position < -MAX_UNHEDGED_LOTS

\* the timer is pending exactly when the position is beyond the bound, unless it fired
TimerFollowsPosition(u) ==
    (u.timer_handle = "pending") <=> (Unhedged(u) /\ u.timer_handle # "fired")

\* C13 (1/3): at every competitor the timer is pending exactly when the relative position
\* is beyond 10 lots either way and the timer has not fired
TimerPendingWhenUnhedged ==
    \A n \in Names : TimerFollowsPosition(comp[n].unhedged_etf_lots)

\* C13 (2/3): from every state a match reaches, apply_position_delta with any delta
\* cancels no timer that was never started, leaves the timer stopped at a position within
\* the bound (10 and -10 included) and pending beyond it (11 and -11 included), unless the
\* timer had fired and the position stays beyond the bound on the same side
AfterEveryDelta ==
    \A n \in Names : \A delta \in Deltas :
        LET u == comp[n].unhedged_etf_lots
            v == apply_position_delta(u, delta, Now)
            sameSide == \/ u.relative_position > MAX_UNHEDGED_LOTS
                           /\ v.relative_position > MAX_UNHEDGED_LOTS
                        \/ u.relative_position < -MAX_UNHEDGED_LOTS
                           /\ v.relative_position < -MAX_UNHEDGED_LOTS
        IN  /\ ~apply_position_delta_raises(u, delta)
            /\ v.relative_position = u.relative_position + delta
            /\ ~Unhedged(v) => v.timer_handle # "pending"
            /\ Unhedged(v) /\ ~sameSide => v.timer_handle = "pending"
            /\ Unhedged(v) /\ sameSide => v.timer_handle = u.timer_handle
            /\ v.armed = IF Unhedged(v) /\ ~sameSide THEN Now ELSE u.armed

\* C13 (3/3): a step that brings the position of a competitor back within the bound
\* cancels its timer, and a step that takes it beyond the bound starts one
TimerStartsAndCancels ==
    \A n \in Names :
        LET u == comp[n].unhedged_etf_lots
            v == comp'[n].unhedged_etf_lots
        IN  /\ Unhedged(u) /\ ~Unhedged(v) => v.timer_handle = "cancelled"
            /\ ~Unhedged(u) /\ Unhedged(v) => v.timer_handle = "pending"

\* C13: after every apply_position_delta the unhedged-lots timer is pending exactly when
\* the relative position is above 10 or below -10 and the timer has not already fired: a
\* delta to exactly 10 or -10 starts no timer, one to 11 or -11 starts it, and one back to
\* 10 or -10 cancels it.
C13_TimerTracksPosition ==
    [](TimerPendingWhenUnhedged /\ AfterEveryDelta) /\ [][TimerStartsAndCancels]_vars

\* a competitor that held 11 lots unhedged is back at exactly 10 and its timer is cancelled
C13_Witness ==
    \E n \in Names : /\ comp[n].unhedged_etf_lots.relative_position = MAX_UNHEDGED_LOTS
                     /\ comp[n].unhedged_etf_lots.timer_handle = "cancelled"

\* C14: at every competitor the relative position of the unhedged lots equals the ETF
\* position of the account minus its Future position, after any fills and hedges.
C14_RelativeIsEtfMinusFuture ==
    \A n \in Names :
        comp[n].unhedged_etf_lots.relative_position
            = comp[n].account.etf_position - comp[n].account.future_position

\* what the handlers keep while none of them raises: the relative position is the sum of
\* the two positions (a Future sale lowers both the Future position and the relative one)
RelativeIsNetPosition ==
    \A n \in Names :
        comp[n].unhedged_etf_lots.relative_position
            = comp[n].account.etf_position + comp[n].account.future_position

\* C15: a connected competitor whose unhedged-lots timer was armed and whose position has
\* stayed beyond 10 lots for more than 60 seconds of virtual time is hard-breached: its
\* status is BREACH and its connection is closed.
C15_UnhedgedTimeout ==
    \A n \in Names :
        LET u == comp[n].unhedged_etf_lots
        IN  /\ comp[n].exec_connection
            /\ Unhedged(u) /\ u.timer_handle \in {"pending", "fired"}
            /\ clock - u.armed > UNHEDGED_LOTS_TIME_LIMIT
            => comp[n].status = "BREACH" /\ conn[n].closing

\* what the timer does: the breach comes once UNHEDGED_LOTS_TIME_LIMIT * Speed units of
\* the virtual clock have passed
BreachAfterLoopSeconds ==
    \A n \in Names :
        LET u == comp[n].unhedged_etf_lots
        IN  /\ comp[n].exec_connection
            /\ Unhedged(u) /\ u.timer_handle \in {"pending", "fired"}
            /\ clock - u.armed > UNHEDGED_LOTS_TIME_LIMIT * config.Speed
            => comp[n].status = "BREACH" /\ conn[n].closing

\* the events of a history that lie in the window (now - interval, now] of its last event
InWindow(history, interval) ==
    LET now == history[Len(history)]
    IN  {j \in DOMAIN history : history[j] > now - interval /\ history[j] <= now}

\* the connections that have run check_event
Limited == {n \in Names : conn[n].seen # <<>>}

\* C16 (1/3): the times given to check_event never decrease, and the deque holds the
\* events of the window of the last call, oldest first
DequeIsWindow ==
    \A n \in Limited :
        LET history == conn[n].seen
            window == InWindow(history, config.MessageFrequencyInterval)
        IN  /\ \A j, k \in DOMAIN history : j <= k => history[j] <= history[k]
            /\ Len(conn[n].events) = Cardinality(window)
            /\ \A j \in DOMAIN conn[n].events :
                   conn[n].events[j] = history[Len(history) - Len(conn[n].events) + j]

\* C16 (2/3): from every state a match reaches, check_event at the present or a later
\* time leaves value = the number of events in the window, the new one included, and so
\* returns true exactly when that number exceeds the limit
CheckEventCounts ==
    \A n \in Limited : \A now \in Now .. MaxTime + 1 :
        LET value == Len(check_event(conn[n].events, config.MessageFrequencyInterval, now))
            window == InWindow(Append(conn[n].seen, now), config.MessageFrequencyInterval)
        IN  /\ ~check_event_raises(conn[n].events, config.MessageFrequencyInterval, now)
            /\ value = Cardinality(window)
            /\ (value > config.MessageFrequencyLimit)
                   <=> (Cardinality(window) > config.MessageFrequencyLimit)

\* C16 (3/3): a message is answered with the breach of the frequency limit exactly when
\* the window of its connection holds more events than the limit
BreachOnExcess ==
    \A n \in Limited :
        last.n = n /\ last.op \in {"insert", "reinsert", "amend", "cancel", "hedge", "rehedge"}
        => ((\E k \in DOMAIN out : out[k].text = "message frequency limit breached")
               <=> Cardinality(InWindow(conn[n].seen, config.MessageFrequencyInterval))
                       > config.MessageFrequencyLimit)

\* C16: check_event(now), called with non-decreasing times, returns true exactly when the
\* events in the window (now - interval, now], the current one included, are more than
\* the limit: limit events do not breach, limit + 1 do, and an event exactly interval
\* older than now is not counted.
C16_FrequencyWindow == DequeIsWindow /\ CheckEventCounts /\ BreachOnExcess

\* limit + 1 events in the window breach, behind an event exactly interval older that is
\* no longer counted
C16_Witness ==
    \E n \in Limited :
        LET history == conn[n].seen
        IN  /\ \E k \in DOMAIN out : out[k].text = "message frequency limit breached"
            /\ Len(conn[n].events) = config.MessageFrequencyLimit + 1
            /\ history[1] = history[Len(history)] - config.MessageFrequencyInterval

Min(a, b) == IF a <= b THEN a ELSE b

\* the lots that rest at a level: the remaining volumes of its queue
RECURSIVE QueueVolume(_)
QueueVolume(queue) ==
    IF queue = <<>> THEN 0 ELSE ord[Head(queue)].remaining_volume + QueueVolume(Tail(queue))

\* the levels of the other side at prices no worse than the limit
Eligible(i, side, limit_price) ==
    {p \in DOMAIN book[i].levels :
        /\ book[i].levels[p] # <<>>
        /\ ord[Head(book[i].levels[p])].side # side
        /\ IF side = BUY THEN p <= limit_price ELSE p >= limit_price}

\* <<volume, value>> of `need` lots taken from the levels ps, best price first
RECURSIVE TakeBest(_, _, _, _)
TakeBest(i, side, ps, need) ==
    IF ps = {} \/ need = 0 THEN <<0, 0>>
    ELSE LET p == CHOOSE x \in ps : \A y \in ps : IF side = BUY THEN x <= y ELSE x >= y
             take == Min(need, QueueVolume(book[i].levels[p]))
             rest == TakeBest(i, side, ps \ {p}, need - take)
         IN  <<take + rest[1], take * p + rest[2]>>

RECURSIVE EligibleVolume(_, _)
EligibleVolume(i, ps) ==
    IF ps = {} THEN 0
    ELSE LET p == CHOOSE x \in ps : TRUE
         IN  QueueVolume(book[i].levels[p]) + EligibleVolume(i, ps \ {p})

\* C17: try_trade(side, limit, volume) returns filled = min(volume, the volume resting
\* on the other side at prices no worse than the limit), taken best price first, and
\* price = floor(traded value / filled), or (0, 0) when nothing would trade.
C17_TryTrade ==
    \A r \in HedgeRequests :
        LET ps == Eligible(FUTURE, r[1], r[2])
            taken == TakeBest(FUTURE, r[1], ps, r[3])
            t == try_trade(World, FUTURE, r[1], r[2], r[3])
        IN  /\ t[1] = Min(r[3], EligibleVolume(FUTURE, ps))
            /\ t[1] = taken[1]
            /\ t[2] = IF t[1] > 0 THEN taken[2] \div t[1] ELSE 0

\* with asks of 10 at 10000 and 5 at 10100, a hedge that buys 12 at 10200 has been filled
\* with 12 lots at 10016
C17_Witness ==
    /\ last.op = "hedge"
    /\ \E k \in DOMAIN out : /\ out[k].typ = "HEDGE_FILLED" /\ out[k].coid = last.coid
                              /\ out[k].x = 10016 /\ out[k].y = 12
    /\ Eligible(FUTURE, BUY, 10200) = {10000, 10100}
    /\ QueueVolume(book[FUTURE].levels[10000]) = 10

\* hedge requests that are rejected: no volume, a price off the tick, and any request
\* that repeats the last id
RejectedHedges == {<<BUY, 10200, 0>>, <<SELL, 9850, 1>>}
HedgeIds(n) == {NextCoid(n), comp[n].last_client_order_id}

\* the hedge changes neither book: orders, queues, aggregates, price lists, last traded
\* price, tick accumulators and trade signal are the same, and no listener was called
BooksKept(w) ==
    /\ ~w.exc => w.book = book /\ w.ord = ord /\ w.mr = mr /\ w.cbs = <<>>
    /\ w.exc => w.book = book /\ w.ord = ord /\ w.cbs = <<>>

\* at competitor n nothing but the account, the unhedged lots and the last id changes
OnlyAccountLotsId(w, n) ==
    /\ [w.comp EXCEPT ![n].account = comp[n].account,
                      ![n].unhedged_etf_lots = comp[n].unhedged_etf_lots,
                      ![n].last_client_order_id = comp[n].last_client_order_id] = comp
    /\ w.conn = conn

\* the same, but for the hard breach of a hedge that takes the Future position past the
\* limit: the status becomes BREACH and the connection of the competitor is closed
OnlyAccountLotsIdBreach(w, n) ==
    /\ [w.comp EXCEPT ![n].account = comp[n].account,
                      ![n].unhedged_etf_lots = comp[n].unhedged_etf_lots,
                      ![n].last_client_order_id = comp[n].last_client_order_id,
                      ![n].status = comp[n].status] = comp
    /\ IF w.comp[n].status = comp[n].status
       THEN w.conn = conn
       ELSE /\ w.comp[n].status = "BREACH"
            /\ Abs(w.comp[n].account.future_position) > config.PositionLimit
            /\ w.conn = [conn EXCEPT ![n].closing = TRUE, ![n].transport = "closing"]

\* C18, as stated: processing a hedge request, accepted or rejected, changes neither
\* book and fires no trade signal; only the competitor's account, unhedged lots and last
\* id may change.
C18_HedgeFrame ==
    \A n \in Names : Serving(n) =>
        \A r \in HedgeRequests \cup RejectedHedges, coid \in HedgeIds(n) :
            LET w == on_hedge_message(World, n, Now, coid, r[1], r[2], r[3])
            IN  BooksKept(w) /\ OnlyAccountLotsId(w, n)

\* C18, amended: processing a hedge request, accepted or rejected, changes neither book
\* and fires no trade signal; only the competitor's account, unhedged lots and last id
\* may change, and, when the hedge takes the Future position past the position limit, its
\* status (to BREACH) and its connection (closed).
C18_HedgeFrameOrBreach ==
    \A n \in Names : Serving(n) =>
        \A r \in HedgeRequests \cup RejectedHedges, coid \in HedgeIds(n) :
            LET w == on_hedge_message(World, n, Now, coid, r[1], r[2], r[3])
            IN  BooksKept(w) /\ OnlyAccountLotsIdBreach(w, n)

\* a hedge has been filled and the Future book still holds every lot of the script
C18_Witness ==
    /\ last.op = "hedge"
    /\ \E k \in DOMAIN out : out[k].typ = "HEDGE_FILLED" /\ out[k].y = 16 - 1
    /\ comp[last.n].account.future_position = 16 - 1
    /\ EligibleVolume(FUTURE, Eligible(FUTURE, BUY, 10200)) = 16 - 1

\* the live orders of the competitors whose session is open
OpenOrders == UNION {LiveOrders(n) : n \in {m \in Names : Serving(m)}}

\* the orders amend can be called with: the live orders of the competitors whose session
\* is open (amend messages) and the orders the market events reader knows (scripted amends)
Amendable ==
    {<<oid, ETF>> : oid \in OpenOrders}
    \cup {<<mr.etf_orders[k], ETF>> : k \in DOMAIN mr.etf_orders}
    \cup {<<mr.future_orders[k], FUTURE>> : k \in DOMAIN mr.future_orders}

\* the aggregate of a level, 0 when the book has no such level
Aggregate(b, price) == IF price \in DOMAIN b.total_volumes THEN b.total_volumes[price] ELSE 0

\* C19: amend(order, new_volume) on an order with remaining volume > 0 and new_volume <=
\* volume sets volume to max(new_volume, volume - remaining), reduces remaining and the
\* aggregate of the level by the amount removed and notifies the listener once, with that
\* amount; amend on an order with remaining volume 0 changes nothing and notifies no one.
C19_Amend ==
    \A a \in Amendable :
        LET oid == a[1]
            i == a[2]
            o == ord[oid]
            fill_volume == o.volume - o.remaining_volume
        IN  \A new_volume \in 0 .. o.volume :
                LET w == amend(World, i, oid, new_volume)
                    kept == IF new_volume < fill_volume THEN fill_volume ELSE new_volume
                    removed == o.volume - kept
                IN  IF o.remaining_volume > 0
                    THEN /\ ~w.exc
                         /\ w.ord[oid].volume = kept
                         /\ w.ord[oid].remaining_volume = o.remaining_volume - removed
                         /\ Aggregate(w.book[i], o.price) = Aggregate(book[i], o.price) - removed
                         /\ Len(w.cbs) = 1
                         /\ w.cbs[1].cb = "amended" /\ w.cbs[1].oid = oid
                         /\ w.cbs[1].volume = removed
                    ELSE w = World


\* the amend request leaves the order, the aggregate of its level and the live orders
\* and active volume of the competitor as they are
AmendChangesNothing(w, oid) ==
    /\ ~w.exc
    /\ w.ord[oid] = ord[oid]
    /\ Aggregate(w.book[ETF], ord[oid].price) = Aggregate(book[ETF], ord[oid].price)
    /\ w.book = book
    /\ w.comp[oid[1]].orders = comp[oid[1]].orders
    /\ w.comp[oid[1]].active_volume = comp[oid[1]].active_volume

\* C20, as stated: amending a live order down to its current remaining volume causes no
\* state change (order volume and remaining volume, aggregate of the level, live orders
\* and active volume of the competitor), for unfilled and partially filled orders alike.
C20_AmendToRemaining ==
    \A oid \in OpenOrders :
        AmendChangesNothing(on_amend_message(World, oid[1], oid[2], ord[oid].remaining_volume),
                            oid)

\* amending a live order to its current volume, which for an unfilled order is its
\* remaining volume, causes no state change, and doing so again causes none either
AmendToVolume ==
    \A oid \in OpenOrders :
        LET w == on_amend_message(World, oid[1], oid[2], ord[oid].volume)
        IN  /\ AmendChangesNothing(w, oid)
            /\ AmendChangesNothing(on_amend_message(w, oid[1], oid[2], ord[oid].volume), oid)

\* the ids client n has used that name no live order: orders that were completely filled
\* or cancelled, and requests that were rejected
DoneIds(n) == UsedCoids(n) \ comp[n].orders

\* the handler changed nothing and wrote nothing
NoEffect(w) ==
    /\ ~w.exc
    /\ w.book = book /\ w.ord = ord /\ w.comp = comp /\ w.conn = conn /\ w.mr = mr
    /\ w.out = <<>> /\ w.rows = <<>> /\ w.cbs = <<>>

\* C21: an amend or a cancel that names an order which has already been completely filled
\* or cancelled has no effect on any book, order or competitor, and produces no message
\* to the client.
C21_DoneOrderIgnored ==
    \A n \in Names : Serving(n) =>
        \A coid \in DoneIds(n) :
            /\ NoEffect(on_cancel_message(World, n, coid))
            /\ \A volume \in 0 .. 2 : NoEffect(on_amend_message(World, n, coid, volume))

\* the only order of a client has traded and is no longer live, and an amend or a cancel
\* that names it has been handled without an answer
C21_Witness ==
    /\ last.op \in {"amend", "cancel"} /\ last.coid = 1
    /\ comp[last.n].last_client_order_id = 1 /\ comp[last.n].orders = {}
    /\ comp[last.n].account.etf_position # 0
    /\ out = <<>> /\ ~exc

\* ------------------------------------------------------- C22: refused amends
\* the handler left the books, the accounts, the sessions and the reader as they were
\* and called no listener
Untouched(w) ==
    /\ w.book = book /\ w.ord = ord /\ w.comp = comp /\ w.conn = conn /\ w.mr = mr
    /\ w.rows = <<>> /\ w.cbs = <<>>

\* the volumes an amend message can ask for
AmendVolumes == 0 .. 3

\* the ids an amend message can name: every id used so far and the two after them
AmendIds(n) == 1 .. comp[n].last_client_order_id + 2

\* C22 as written: an amend whose target is not one of the competitor's live orders, or
\* whose new volume exceeds the order's volume, is answered with one ERROR carrying the
\* client order id and changes nothing.
C22_AmendRefused ==
    \A n \in Names : Serving(n) =>
        \A coid \in AmendIds(n), volume \in AmendVolumes :
            (\/ coid \notin comp[n].orders
             \/ volume > ord[<<n, coid>>].volume)
            => /\ IsError(on_amend_message(World, n, coid, volume), n, coid)
               /\ Untouched(on_amend_message(World, n, coid, volume))

\* C22 amended: an amend whose client order id is greater than every id the competitor
\* has used, or whose new volume exceeds the volume of the live order it names, is
\* answered with one ERROR carrying the client order id and changes nothing; an amend
\* naming a used id that is not a live order is not answered.
C22_AmendRefusedOrIgnored ==
    \A n \in Names : Serving(n) =>
        \A coid \in AmendIds(n), volume \in AmendVolumes :
            /\ (\/ coid > comp[n].last_client_order_id
                \/ coid \in comp[n].orders /\ volume > ord[<<n, coid>>].volume)
               => /\ IsError(on_amend_message(World, n, coid, volume), n, coid)
                  /\ Untouched(on_amend_message(World, n, coid, volume))
            /\ (coid <= comp[n].last_client_order_id /\ coid \notin comp[n].orders)
               => on_amend_message(World, n, coid, volume).out = <<>>

\* an amend asking for more than the volume of a live order has just been refused
C22_Witness ==
    /\ last.op = "amend" /\ ~exc
    /\ last.coid \in comp[last.n].orders
    /\ Len(out) = 1 /\ out[1].typ = "ERROR" /\ out[1].coid = last.coid
    /\ out[1].text = "amend operation would increase order volume"

\* ---------------------------------------------------- C23: login comes first
\* one request of each of the four types
FirstRequests ==
    { Msg("INSERT_ORDER", 1, BUY, 200, 1, GOOD_FOR_DAY),
      Msg("AMEND_ORDER", 1, BUY, 0, 1, GOOD_FOR_DAY),
      Msg("CANCEL_ORDER", 1, BUY, 0, 0, GOOD_FOR_DAY),
      Msg("HEDGE_ORDER", 1, BUY, 200, 1, GOOD_FOR_DAY) }

\* what a connection can send as its first message
FirstMessages(n) ==
    FirstRequests \cup Malformations \cup {LoginMsg(l[1], l[2]) : l \in Logins(n)}

\* a LOGIN whose name is in the roster, with the secret of that name
GoodLogin(msg) ==
    /\ msg.typ = "LOGIN" /\ msg.length = LOGIN_MESSAGE_SIZE
    /\ msg.name \in DOMAIN Traders /\ Traders[msg.name] = msg.secret

\* the market events due now, which every message applies before it is looked at
EventsDue == advance_time(World, Now)

\* the books, the orders, the accounts and the reader are as the events due left them,
\* and nothing was sent or recorded for the message
OnlyEventsDue(w) ==
    /\ ~w.exc
    /\ w.book = EventsDue.book /\ w.ord = EventsDue.ord /\ w.comp = EventsDue.comp
    /\ w.mr = EventsDue.mr
    /\ w.out = EventsDue.out /\ w.rows = EventsDue.rows /\ w.cbs = EventsDue.cbs

\* connection n was closed and has no competitor
TurnedAway(w, n) ==
    /\ w.conn[n].closing /\ w.conn[n].transport = "closing"
    /\ ~w.conn[n].competitor

\* C23: on a connection that has not logged in, a first message that is not a LOGIN
\* whose name is in the roster with the matching secret (a request of any type, a
\* malformed message, a LOGIN with an unknown name or a wrong secret) closes the
\* connection, gives it no competitor, and leaves every book and account as the market
\* events due at that time leave them; a message that gives the connection its
\* competitor is such a LOGIN, and it too leaves the books and the accounts alone.
C23_LoginFirst ==
    \A n \in Names : (Receivable(n) /\ ~conn[n].competitor) =>
        \A msg \in FirstMessages(n) :
            /\ OnlyEventsDue(data_received(World, n, Now, <<msg>>))
            /\ ~GoodLogin(msg) => TurnedAway(data_received(World, n, Now, <<msg>>), n)
            /\ data_received(World, n, Now, <<msg>>).conn[n].competitor => GoodLogin(msg)

\* after the market has opened and another client has traded, a connection whose first
\* message was an order or a bad LOGIN has just been closed
C23_Witness ==
    /\ started /\ ~exc
    /\ last.op \in {"insert", "login"}
    /\ ~conn[last.n].competitor /\ conn[last.n].closing
    /\ Len(conn[last.n].seen) = 1
    /\ \E m \in Names : conn[m].competitor /\ comp[m].account.etf_position # 0

\* ------------------------------------------------------ C24: protocol errors
\* the messages that are protocol errors on connection n: before the login a request or
\* a malformed message, after it a second LOGIN or a malformed message
ProtocolErrors(n) ==
    IF conn[n].competitor
    THEN Malformations \cup {LoginMsg(n, Traders[n])}
    ELSE Malformations \cup FirstRequests

\* the frequency limiter lets one more message of connection n through
WithinFrequency(w, n) ==
    /\ ~w.exc
    /\ Len(w.conn[n].events) <= w.cfg.MessageFrequencyLimit

\* the handler closed connection n, sent nothing, recorded no score row and left the
\* status of the competitor as it was
ClosedQuietly(w, n) ==
    /\ ~w.exc
    /\ w.conn[n].closing /\ w.conn[n].transport = "closing"
    /\ w.out = EventsDue.out /\ w.rows = EventsDue.rows
    /\ w.comp[n].status = EventsDue.comp[n].status

\* the score rows of team n among rows
RowsOf(rows_, n) == SelectSeq(rows_, LAMBDA r : r.team = n)

\* connection_lost of connection n, run after the handler that gave w
ThenLost(w, n) ==
    connection_lost([w EXCEPT !.out = <<>>, !.rows = <<>>, !.cbs = <<>>], n, Now)

\* C24 as written: a protocol error on an execution connection (wrong first message,
\* second LOGIN, unknown message type, wrong length for the type) closes the connection
\* and results in no score-board entry for the competitor of that connection.
C24_NoScoreEntry ==
    \A n \in Names :
        (Receivable(n) /\ WithinFrequency(on_message_limiter(EventsDue, n, Now), n)) =>
            \A msg \in ProtocolErrors(n) :
                /\ ClosedQuietly(data_received(World, n, Now, <<msg>>), n)
                /\ RowsOf(ThenLost(data_received(World, n, Now, <<msg>>), n).rows, n) = <<>>

\* C24 amended: a protocol error closes the connection without an ERROR message, without
\* a breach and without a score row of its own; the loss of the connection that follows
\* records one Disconnect row for the competitor when the connection had logged in, and
\* no row when it had not.
C24_DisconnectEntryOnly ==
    \A n \in Names :
        (Receivable(n) /\ WithinFrequency(on_message_limiter(EventsDue, n, Now), n)) =>
            \A msg \in ProtocolErrors(n) :
                /\ ClosedQuietly(data_received(World, n, Now, <<msg>>), n)
                /\ RowsOf(ThenLost(data_received(World, n, Now, <<msg>>), n).rows, n)
                   = IF conn[n].competitor
                     THEN << ScoreRecord(n, "Disconnect", EventsDue.comp[n].account) >>
                     ELSE <<>>

\* a connection that had logged in and was closed for a protocol error, not for a breach,
\* has just been lost, and the score board got a Disconnect row for its competitor
C24_Witness ==
    /\ last.op = "connection_lost" /\ ~exc
    /\ conn[last.n].competitor /\ conn[last.n].closing
    /\ comp[last.n].status = "OK"
    /\ comp[last.n].account.etf_position # 0
    /\ Len(rows) = 1 /\ rows[1].operation = "Disconnect" /\ rows[1].team = last.n

\* ------------------------------------------------ C25: trade ticks coalesced
RECURSIVE SumSeq(_)
SumSeq(q) == IF q = <<>> THEN 0 ELSE Head(q) + SumSeq(Tail(q))

\* the TRADE_TICKS messages among the messages of a handler
TickMessages(w) == SelectSeq(w.out, LAMBDA m : m.typ = "TRADE_TICKS")

\* for each instrument the event loop holds at most one __send_trade_ticks, the one of
\* the handle, and holds one whenever the book has ticks to report
OnePending ==
    \A i \in Instruments :
        /\ pub.scheduled[i] <= 1
        /\ pub.scheduled[i] = 1 <=> pub.send_ticks_handles[i] = "handle"
        /\ (DOMAIN book[i].ask_ticks # {} \/ DOMAIN book[i].bid_ticks # {})
           => pub.scheduled[i] = 1

\* the callback empties the accumulators, frees the handle, and a second call reports
\* nothing
Emptied(w, i) ==
    /\ ~w.exc
    /\ w.book[i].ask_ticks = <<>> /\ w.book[i].bid_ticks = <<>>
    /\ w.pub.send_ticks_handles[i] = "None" /\ w.pub.scheduled[i] = 0
    /\ ~trade_ticks(w.book[i]).result
    /\ Len(TickMessages(w)) <= 1

\* the one message carries the next sequence number, the lowest traded ask prices and
\* the highest traded bid prices, TOP_LEVEL_COUNT of each at most, with their volumes
TopTicksReported(w, i) ==
    LET asks == TopLevels(sorted(DOMAIN book[i].ask_ticks))
        bids == TopLevels(sorted_reverse(DOMAIN book[i].bid_ticks))
    IN  /\ Len(w.out) = 1
        /\ w.out[1].typ = "TRADE_TICKS" /\ w.out[1].instrument = i
        /\ w.out[1].sequence = pub.trade_ticks_sequences[i] + 1
        /\ Len(w.out[1].ask_prices) = TOP_LEVEL_COUNT
        /\ Len(w.out[1].bid_prices) = TOP_LEVEL_COUNT
        /\ \A k \in 1 .. TOP_LEVEL_COUNT :
              /\ w.out[1].ask_prices[k] = IF k <= Len(asks) THEN asks[k] ELSE 0
              /\ w.out[1].ask_volumes[k]
                 = IF k <= Len(asks) THEN book[i].ask_ticks[asks[k]] ELSE 0
              /\ w.out[1].bid_prices[k] = IF k <= Len(bids) THEN bids[k] ELSE 0
              /\ w.out[1].bid_volumes[k]
                 = IF k <= Len(bids) THEN book[i].bid_ticks[bids[k]] ELSE 0

\* the message accounts for the whole volume traded since the last message
AllVolumeReported(w, i) ==
    /\ Len(w.out) = 1
    /\ SumSeq(w.out[1].ask_volumes) + SumSeq(w.out[1].bid_volumes) = pub.unreported[i]

\* C25 as written: for each instrument at most one TRADE_TICKS emission is pending; all
\* the trades on the instrument that occur before the scheduled callback runs are
\* reported in one single TRADE_TICKS message, after which the accumulators are empty and
\* a further trade_ticks call returns false.
C25_AllTradesInOneMessage ==
    /\ OnePending
    /\ \A i \in Instruments : pub.scheduled[i] > 0 =>
           /\ Emptied(send_trade_ticks(World, i), i)
           /\ AllVolumeReported(send_trade_ticks(World, i), i)

\* C25 amended: for each instrument at most one TRADE_TICKS emission is pending; when the
\* callback runs, the trades on the instrument since the last message are reported in one
\* single TRADE_TICKS message that carries the five lowest traded ask prices and the five
\* highest traded bid prices with the volumes traded at them (ticks at further prices
\* are dropped), after which the accumulators are empty and a further trade_ticks call
\* returns false.
C25_TopTicksInOneMessage ==
    /\ OnePending
    /\ \A i \in Instruments : pub.scheduled[i] > 0 =>
           /\ Emptied(send_trade_ticks(World, i), i)
           /\ TopTicksReported(send_trade_ticks(World, i), i)

\* one TRADE_TICKS message has just reported trades of two handlers, on both sides of the
\* book, and no emission is pending
C25_Witness ==
    /\ last.op = "send_trade_ticks" /\ ~exc
    /\ Len(out) = 1 /\ out[1].typ = "TRADE_TICKS"
    /\ out[1].ask_volumes[1] > 0 /\ out[1].bid_volumes[1] > 0
    /\ book[last.n].trade_occurred >= 2
    /\ pub.scheduled[last.n] = 0 /\ book[last.n].ask_ticks = <<>>

\* -------------------------------------------- C29: the market events applied
\* the scripted events of the file, without the None that ends it
Scripted(file) == SelectSeq(file, LAMBDA e : e.operation # "None")

\* the events applied so far that are events of the file: the no-op event that primes
\* next_event is not one
AppliedEvents(w) == SelectSeq(w.mr.applied, LAMBDA e : e.order_id # 0)

\* the times process_market_events can be called with from here
CallTimes == {t \in 0 .. MaxTime + 1 : t >= Now}

\* C29: process_market_events(now) leaves applied to the books, in file order and each
\* exactly once, every scripted event whose time is before now, and none whose time is
\* after now.  The events at exactly now are set aside here: the loop compares with <,
\* and leaves them to the next call.
C29_EventsApplied ==
    started =>
        \A t \in CallTimes :
            /\ SelectSeq(Scripted(mr.file), LAMBDA e : e.time < t)
               = SelectSeq(AppliedEvents(process_market_events(World, t)),
                           LAMBDA e : e.time < t)
            /\ SelectSeq(AppliedEvents(process_market_events(World, t)),
                         LAMBDA e : e.time > t) = <<>>

\* the same with the events at the time of the call counted in: every scripted event
\* whose time is at most now has been applied once, in file order, and no other
EventsUpToNow ==
    started =>
        \A t \in CallTimes :
            SelectSeq(Scripted(mr.file), LAMBDA e : e.time <= t)
            = AppliedEvents(process_market_events(World, t))

\* C28: once shutdown has been called on the tick timer, no tick callback of that timer
\* runs any more: the number of ticks run stays what it was, also when the shutdown
\* was called by a subscriber from inside a tick.
C28_NoTickAfterShutdown ==
    [][ctl.tick_timer.shutdowns > 0
           => ctl'.tick_timer.tick_number = ctl.tick_timer.tick_number]_vars

\* the records among the items of a queue
Records(items) == SelectSeq(items, LAMBDA r : r # Sentinel)

\* the items put in the queue of writer x before its first finish()
BeforeFinish(x) ==
    LET items == ctl.writers[x].enqueued
        first == {i \in DOMAIN items : items[i] = Sentinel}
    IN  IF first = {} THEN items
        ELSE SubSeq(items, 1, (CHOOSE i \in first : \A j \in first : i <= j) - 1)

\* writer x has written the records put before finish(), its thread has ended and its
\* on_writer_done has run
Completed(x) ==
    /\ ctl.writers[x].finished
    /\ ctl.writers[x].thread = "done"
    /\ ctl.writers[x].callbacks = 0
    /\ ~ctl.refs[x]
    /\ Records(ctl.writers[x].file) = ctl.writers[x].file
    /\ ctl.writers[x].file = BeforeFinish(x)

\* C26: the event loop is stopped only when the market data has been read to its end
\* and both writers have written their records and completed.
C26_StoppedWhenDone ==
    ctl.loop_stopped => ctl.done /\ \A x \in Writers : Completed(x)

\* C26, amended: the event loop is stopped only when both writers have written their
\* records and completed, after a shutdown of the tick timer that found the market data at
\* its end or no competitor connected.
C26_StoppedWhenWritten ==
    ctl.loop_stopped =>
        /\ \A x \in Writers : Completed(x)
        /\ ctl.tick_timer.shutdowns > 0
        /\ ctl.done \/ "no remaining competitors" \in ctl.tick_timer.reasons

\* the loop has stopped after the market data ended with a competitor connected
C26_Witness ==
    /\ ctl.loop_stopped
    /\ ctl.done
    /\ ctl.tick_timer.reasons = {"match complete"}
    /\ \E x \in Writers : ctl.writers[x].file # <<>>

\* C27: once the reader has taken the None that ends the market data, the match shuts
\* down in the end: the tick timer has been shut down, finish() has been called on both
\* writers, both writer threads have posted their on_writer_done and the event loop is
\* stopped, provided ticks keep firing, the loop runs what is posted to it and the
\* writer threads are scheduled.
C27_ShutsDown ==
    ctl.done ~> /\ ctl.loop_stopped
                /\ ctl.tick_timer.shutdowns > 0
                /\ \A x \in Writers : ctl.writers[x].finished /\ ctl.writers[x].posted = 1

\* the loop has stopped after a tick that found the market data at its end
C27_Witness ==
    /\ ctl.done
    /\ last.op = "on_writer_done"
    /\ ctl.loop_stopped
    /\ "match complete" \in ctl.tick_timer.reasons
    /\ \A x \in Writers : ctl.writers[x].posted = 1

\* C30: for each writer, the file holds, in the order they were put, records put in the
\* queue before finish(); the completion callback is posted at most once, and once the
\* thread has taken the None; when the callback has run on the main thread, every record
\* put before finish() is in the file; and no record the main thread has put is behind the
\* None, where the thread never reads it.
C30_WrittenInOrder ==
    \A x \in Writers :
        /\ ctl.writers[x].file = SubSeq(BeforeFinish(x), 1, Len(ctl.writers[x].file))
        /\ ctl.writers[x].posted = IF ctl.writers[x].thread = "done" THEN 1 ELSE 0
        /\ ~ctl.refs[x] => ctl.writers[x].file = BeforeFinish(x)
        /\ Records(ctl.writers[x].enqueued) = BeforeFinish(x)

\* C40: in a run the subscribers of timer_stopped of the tick timer run at most once,
\* finish() is called at most once on each writer, and no tick ends in the exception of
\* a finish() on a writer that has finished or completed already.
C40_ShutDownOnce ==
    /\ ctl.tick_timer.shutdowns <= 1
    /\ \A x \in Writers : ctl.writers[x].finishes <= 1
    /\ last.op \in {"open", "tick"} => ~exc

\* the sum of the remaining volumes of the orders queued at a level
RECURSIVE QueuedVolume(_)
QueuedVolume(order_queue) ==
    IF order_queue = <<>> THEN 0
    ELSE ord[Head(order_queue)].remaining_volume + QueuedVolume(Tail(order_queue))

\* the prices of the two sorted lists of a book, the asks without their sign
ListedPrices(b) ==
    {b.bid_prices[k] : k \in DOMAIN b.bid_prices} \cup {-b.ask_prices[k] : k \in DOMAIN b.ask_prices}

\* a list of prices is in ascending order and holds no price twice
Ascending(prices) == \A j, k \in DOMAIN prices : j < k => prices[j] < prices[k]

\* the levels of book i are what their queues say
LevelsInOrder(i) ==
    /\ DOMAIN book[i].levels = DOMAIN book[i].total_volumes
    /\ \A price \in DOMAIN book[i].total_volumes :
           /\ book[i].total_volumes[price] = QueuedVolume(book[i].levels[price])
           /\ book[i].total_volumes[price] > 0
    /\ ListedPrices(book[i]) = DOMAIN book[i].total_volumes
    /\ Ascending(book[i].bid_prices)
    /\ Ascending(book[i].ask_prices)
    /\ Len(book[i].bid_prices) + Len(book[i].ask_prices)
           = Cardinality(DOMAIN book[i].total_volumes)

\* the handlers that insert, amend or cancel orders: the requests of the clients and
\* the ticks that apply the market data
BookRequestsDone == {"insert", "pipelined", "amend", "cancel", "market_tick", "open"}

\* C31: in each book, after every insert, amend or cancel that has completed, the
\* aggregate of every level is the sum of the remaining volumes of the orders queued at
\* its price and is greater than zero, and a price is in the sorted list of its side
\* exactly when the book has a level at that price.
C31_LevelAggregates ==
    (~exc /\ last.op \in BookRequestsDone) => \A i \in Instruments : LevelsInOrder(i)

\* the last handler delivered a fill of an ETF order to a competitor
FillDelivered ==
    \E k \in DOMAIN cbs :
        cbs[k].cb = "filled" /\ cbs[k].listener # READER /\ cbs[k].instrument = ETF

\* no level of book i has had volume taken from its orders and not from its aggregate
AggregatesUpToDate(i) ==
    \A price \in DOMAIN book[i].total_volumes :
        price \in DOMAIN book[i].levels
        /\ book[i].total_volumes[price] = QueuedVolume(book[i].levels[price])

\* C39: whenever a fill of an ETF order is delivered to a competitor, the Future book has
\* a last traded price or a bid and an ask, so that the Future anchor is defined and the
\* callback completes; and matching is never left part-way through a level, with volume
\* taken from the passive orders and not yet from the aggregate of the level.
C39_FillCompletes ==
    /\ FillDelivered => FutureAnchor(World) # None /\ ~exc
    /\ \A i \in Instruments : AggregatesUpToDate(i)

\* the orders of competitor n that still have remaining volume in a queue of the ETF book
RestingOf(n) ==
    {oid \in UNION {{book[ETF].levels[price][j] : j \in DOMAIN book[ETF].levels[price]} :
                     price \in DOMAIN book[ETF].levels} :
        oid[1] = n /\ ord[oid].remaining_volume > 0}

\* the last handler delivered a fill to competitor n
FilledFor(n) == \E k \in DOMAIN cbs : cbs[k].cb = "filled" /\ cbs[k].listener = n

\* the connection of competitor n has been lost
Lost(n) == conn[n].competitor /\ conn[n].transport = "lost"

\* C37: once the connection of a competitor has been lost and connection_lost has run, the
\* competitor's orders map and its two price lists are empty, its active volume is 0, none
\* of its orders has remaining volume in the ETF book, and no later handler delivers a
\* fill to it.
C37_OrdersCancelled ==
    \A n \in Names :
        Lost(n) =>
            /\ comp[n].orders = {}
            /\ comp[n].buy_prices = <<>> /\ comp[n].sell_prices = <<>>
            /\ comp[n].active_volume = 0
            /\ RestingOf(n) = {}
            /\ ~(last.op = "connection_lost" /\ last.n = n) => ~FilledFor(n)

\* the messages of the four calls of hard_breach
BreachMessages ==
    {"ETF position limit breached", "future position limit breached",
     "message frequency limit breached", "held unhedged lots for longer than the time limit"}

\* the 'Breach' records of competitor n put on the score board so far
BreachRecords(n) ==
    SelectSeq(ctl.writers["score_board"].enqueued,
              LAMBDA r : r.operation = "Breach" /\ r.team = n)

\* the breach ERROR messages the last handler sent to competitor n
BreachErrorsSent(n) ==
    SelectSeq(out, LAMBDA m : m.to = n /\ m.typ = "ERROR" /\ m.text \in BreachMessages)

\* C36: for each competitor at most one hard breach is executed in a match: the score board
\* is given at most one 'Breach' record of the competitor and the competitor is sent at
\* most one breach ERROR.
C36_OneBreach ==
    \A n \in Names : Len(BreachRecords(n)) <= 1 /\ Len(BreachErrorsSent(n)) <= 1

\* C35: for every competitor the relative position of its unhedged lots is at all times
\* the sum of the ETF position and the Future position of its account (a BUY fill of an
\* ETF order and a BUY hedge both raise it).
C35_RelativeIsSum ==
    \A n \in Names :
        comp[n].unhedged_etf_lots.relative_position
            = comp[n].account.etf_position + comp[n].account.future_position

\* the world as the next handler finds it: nothing sent, recorded or called back yet
Fresh(w) == [w EXCEPT !.out = <<>>, !.rows = <<>>, !.cbs = <<>>]

\* the error messages of the validations that follow the id check
LaterRejections ==
    {"not a valid side", "not a valid lifespan", "price is not a multiple of tick size",
     "order rejected: active order count limit breached", "order rejected: invalid volume",
     "order rejected: active order volume limit breached",
     "order rejected: market not yet open",
     "order rejected: in cross with an existing order"}

\* the handler that gave w answered request client_order_id of n with one of these errors
RejectedLater(w, n, client_order_id) ==
    /\ ~w.exc /\ Len(w.out) = 1
    /\ w.out[1].to = n /\ w.out[1].typ = "ERROR" /\ w.out[1].coid = client_order_id
    /\ w.out[1].text \in LaterRejections

\* the handler that gave w2 from w1 only answered with the duplicate id error
DuplicateOnly(w1, w2, n, client_order_id) ==
    /\ ~w2.exc
    /\ w2.out = <<Message(n, "ERROR", client_order_id, 0, 0, 0,
                          "duplicate or out-of-order client_order_id")>>
    /\ w2.book = w1.book /\ w2.ord = w1.ord /\ w2.comp = w1.comp

\* requests that fail one validation each, and requests that can be accepted
InsertTrials ==
    {<<"NEITHER", 100, 1, GOOD_FOR_DAY>>, <<BUY, 100, 1, "NEITHER">>,
     <<BUY, 150, 1, GOOD_FOR_DAY>>, <<BUY, 100, 0, GOOD_FOR_DAY>>,
     <<BUY, 100, 4, GOOD_FOR_DAY>>, <<BUY, 100, 1, GOOD_FOR_DAY>>,
     <<SELL, 100, 1, GOOD_FOR_DAY>>, <<SELL, 200, 1, FILL_AND_KILL>>}
HedgeTrials ==
    {<<"NEITHER", 100, 1>>, <<BUY, 150, 1>>, <<SELL, 100, 0>>, <<BUY, 200, 1>>}

\* the same id sent again, as an insert or as a hedge, is a duplicate
ResendRefused(w1, n, c) ==
    /\ w1.comp[n].last_client_order_id = c
    /\ \A r \in InsertTrials :
          DuplicateOnly(w1, on_insert_message(Fresh(w1), n, Now, c, r[1], r[2], r[3], r[4]),
                        n, c)
    /\ \A r \in HedgeTrials :
          DuplicateOnly(w1, on_hedge_message(Fresh(w1), n, Now, c, r[1], r[2], r[3]), n, c)

\* C38: an insert or a hedge with a fresh id that a validation after the id check rejects
\* (side, lifespan, tick size, volume, order count, active volume, market not open,
\* self-cross) has made its id the last seen one: the same id sent again, with any
\* request, is answered with the duplicate id error and changes nothing.
C38_RejectedIdIsUsed ==
    \A n \in {m \in Names : Serving(m)} :
        \A now \in {0, Now} :
            /\ \A r \in InsertTrials :
                  LET w1 == on_insert_message(World, n, now, NextCoid(n),
                                              r[1], r[2], r[3], r[4])
                  IN  RejectedLater(w1, n, NextCoid(n)) => ResendRefused(w1, n, NextCoid(n))
            /\ \A r \in HedgeTrials :
                  LET w1 == on_hedge_message(World, n, now, NextCoid(n),
                                             r[1], r[2], r[3])
                  IN  RejectedLater(w1, n, NextCoid(n)) => ResendRefused(w1, n, NextCoid(n))

\* a client with an order that rests and the order count at its limit, so that the trials
\* are rejected for the order count, for the active volume and for the self-cross as well
C38_Witness ==
    /\ Serving("A") /\ ~exc
    /\ last.op \in {"insert", "hedge"}
    /\ RejectedLater([World EXCEPT !.out = out], "A", last.coid)
    /\ comp["A"].orders # {}
    /\ \E r \in InsertTrials :
          LET w1 == on_insert_message(World, "A", Now, NextCoid("A"),
                                      r[1], r[2], r[3], r[4])
          IN  /\ RejectedLater(w1, "A", NextCoid("A"))
              /\ w1.out[1].text = "order rejected: in cross with an existing order"

\* the sum of the remaining volumes of the orders of competitor n with the ids in ids
RECURSIVE LiveVolume(_, _)
LiveVolume(n, ids) ==
    IF ids = {} THEN 0
    ELSE LET c == CHOOSE x \in ids : TRUE
         IN  ord[<<n, c>>].remaining_volume + LiveVolume(n, ids \ {c})

\* the handlers after which the orders of the competitors are compared to the book
RequestsDone ==
    {"insert", "pipelined", "amend", "cancel", "hedge", "market_tick", "connection_lost",
     "expiry"}

\* C32: for every competitor, once a request and the callbacks it caused have completed,
\* active_volume is the sum of the remaining volumes of the orders in its orders map, and
\* the map holds exactly those of its orders that still have remaining volume in a queue
\* of the ETF book.
C32_ActiveVolume ==
    (~exc /\ last.op \in RequestsDone) =>
        \A n \in Names :
            /\ \A c \in comp[n].orders : <<n, c>> \in DOMAIN ord
            /\ comp[n].active_volume = LiveVolume(n, comp[n].orders)
            /\ LiveOrders(n) = RestingOf(n)

\* the orders in the orders map of competitor n with the given side and price
OwnOrders(n, side, price) ==
    {c \in comp[n].orders : ord[<<n, c>>].side = side /\ ord[<<n, c>>].price = price}

\* prices is in ascending order and holds sign * price once for each order of competitor n
\* with that side and price, and nothing else
PricesOf(prices, n, side, sign) ==
    /\ \A j \in 1..(Len(prices) - 1) : prices[j] <= prices[j + 1]
    /\ \A price \in Prices :
          Cardinality({j \in DOMAIN prices : prices[j] = sign * price})
              = Cardinality(OwnOrders(n, side, price))
    /\ \A j \in DOMAIN prices : sign * prices[j] \in Prices

\* C34: for every competitor buy_prices holds exactly the prices of the BUY orders in its
\* orders map, in ascending order and once for each order, and sell_prices the negated
\* prices of its SELL orders likewise; so the pop() of a full fill has removed the price of
\* the order that was filled.
C34_OwnPrices ==
    \A n \in Names :
        /\ \A c \in comp[n].orders : <<n, c>> \in DOMAIN ord
        /\ PricesOf(comp[n].buy_prices, n, BUY, 1)
        /\ PricesOf(comp[n].sell_prices, n, SELL, -1)

\* the orders in the queues of book i that the book still counts: trade_level pops the
\* orders with no remaining volume off a queue when it meets them
RestingIn(i) ==
    {oid \in UNION {{book[i].levels[price][j] : j \in DOMAIN book[i].levels[price]} :
                     price \in DOMAIN book[i].levels} : ord[oid].remaining_volume # 0}

\* C33 (1/3): a resting order has 0 < remaining_volume <= volume
RestingWithinVolume ==
    \A i \in Instruments : \A oid \in RestingIn(i) :
        0 < ord[oid].remaining_volume /\ ord[oid].remaining_volume <= ord[oid].volume

\* the volume of order oid that is no longer remaining, 0 before the order exists
Taken(orders, oid) ==
    IF oid \in DOMAIN orders THEN orders[oid].volume - orders[oid].remaining_volume ELSE 0

\* C33 (2/3) (step): volume - remaining_volume of an order grows in a handler by the
\* volumes of the fill callbacks the handler delivered for it
TakenIsFilled ==
    \A oid \in DOMAIN ord' :
        Taken(ord', oid) - Taken(ord, oid)
            = SumVolume(cbs', {k \in DOMAIN cbs' : cbs'[k].cb = "filled" /\ cbs'[k].oid = oid})

\* C33 (3/3): the fills of the resting orders of a level are followed by the fill of the
\* incoming order at that level, for the sum of their volumes
LevelFillsBalance ==
    /\ \A k \in DOMAIN cbs :
          PassiveFill(k) => \E a \in DOMAIN cbs : a > k /\ AggressorFill(a) /\ k \in Group(a)
    /\ \A a \in DOMAIN cbs :
          AggressorFill(a) => cbs[a].volume = SumVolume(cbs, Group(a))

\* C33: every order resting in a book has 0 < remaining_volume <= volume; for every order
\* volume - remaining_volume is always the sum of the volumes of its fill callbacks; and
\* in one matching step the volumes filled on the resting orders of a level sum to the
\* volume filled on the incoming order at that level.
C33_VolumesAccounted ==
    [](RestingWithinVolume /\ LevelFillsBalance) /\ [][TakenIsFilled]_vars

====
